---- MODULE Spec2Model ----
(***************************************************************************)
(* The ordered, concurrent sentence pipeline of live-recognition           *)
(* (src/src/renderer/App.tsx): processSentence allocates sequence ids and  *)
(* launches refinement calls, the continuation of each call stores its     *)
(* result, and displayCompletedResults drains the results in id order.     *)
(*                                                                         *)
(* Text is a sequence of one-character strings.  Time is Date.now() in     *)
(* milliseconds.  The React state update queued by setRefinedText and the  *)
(* callbacks queued by queueMicrotask are separate steps, because the code *)
(* itself defers them.                                                     *)
(***************************************************************************)
EXTENDS Integers, Sequences, FiniteSets, TLC

\* ---------------------------------------------------------------- bounds
MaxSeq == 3          \* sentences dispatched in one explored session
LiveSeq == 4         \* sentences dispatched in the settling scenario
BurstSeq == 7        \* sentences dispatched in the stuck-call scenario
BurstTicks == 1      \* clock advances explored in it
FloodSeq == 102      \* sentences dispatched in the flood scenario
StallSeq == 17       \* sentences dispatched in the long-stall scenario
StuckCalls == 11     \* its first calls, which never return
SegSeq == 3          \* ids after which the segmenter scenario takes no fragment
MaxBuffer == 2       \* buffered characters after which it takes no fragment
MaxEmit == 3         \* emitted sentences after which it takes no fragment
DeskSeq == 6         \* sentences dispatched in the desk scenario
MaxUserActions == 2  \* edits and Enter presses explored in it
BacklogSeq == 24     \* sentences dispatched in the backlog scenario
MissSeq == 21        \* sentences dispatched in the lost-record scenario
MissStuck == 10      \* its first calls, which never return
MaxFragments == 3    \* final fragments fed in the carry-over scenario
MaxSockets == 2      \* WebSocket objects created in the connection scenario
MaxKeepAlives == 2   \* KeepAlive messages sent in it
MaxConnects == 2     \* connect calls explored in it
HookMessages == 3    \* messages received in the recognizer scenario
FlushFragments == 2  \* final fragments fed in the commit scenario
FlushActions == 2    \* edits and Enter presses explored in it
StuckFragments == 2  \* final fragments fed in the stuck-commit scenario
StuckEnters == 1     \* Enter presses explored in it
MaxTicks == 2        \* clock advances explored
TickMs == 31000      \* milliseconds per explored clock advance
StartMs == 1000      \* Date.now() when the component is constructed

\* ------------------------------------------------------- program constants
MAX_PROCESSED == 100
MAX_PASTE_LENGTH == 10000
MAX_SEQUENCE_GAP == 5
SEQUENCE_TIMEOUT_MS == 30000
CLEANUP_AGE_MS == 60000
MAX_COMPLETED_RESULTS == 20
MAX_DISPLAY_RETRIES == 10
MIN_API_KEY_LENGTH == 20

\* ------------------------------------------------------------------- text
NL == "\n"
\* The three delimiters of handleFinalTranscript, named by code point.
Kuten == "U+3002"
FullQuestion == "U+FF1F"
FullExclamation == "U+FF01"
\* The characters String.prototype.trim strips: the WhiteSpace and
\* LineTerminator code points of ECMAScript.
IdeographicSpace == "U+3000"
Whitespace ==
  {" ", NL, "\t", "\r", "\f", "U+000B", "U+00A0", "U+1680", "U+2000", "U+2001",
   "U+2002", "U+2003", "U+2004", "U+2005", "U+2006", "U+2007", "U+2008", "U+2009",
   "U+200A", "U+2028", "U+2029", "U+202F", "U+205F", IdeographicSpace, "U+FEFF"}

RECURSIVE TrimStart(_)
TrimStart(s) ==
  IF s = <<>> THEN <<>>
  ELSE IF Head(s) \in Whitespace THEN TrimStart(Tail(s)) ELSE s

RECURSIVE TrimEnd(_)
TrimEnd(s) ==
  IF s = <<>> THEN <<>>
  ELSE IF s[Len(s)] \in Whitespace THEN TrimEnd(SubSeq(s, 1, Len(s) - 1)) ELSE s

\* String.prototype.trim
Trim(s) == TrimEnd(TrimStart(s))

\* text.replace(/\n+/g, '')
RECURSIVE StripNewlines(_)
StripNewlines(s) ==
  IF s = <<>> THEN <<>>
  ELSE IF Head(s) = NL THEN StripNewlines(Tail(s))
       ELSE <<Head(s)>> \o StripNewlines(Tail(s))

\* parts.join('')
RECURSIVE Join(_)
Join(parts) == IF parts = <<>> THEN <<>> ELSE Head(parts) \o Join(Tail(parts))

\* ------------------------------------------------------------------- maps
\* A JavaScript Map<number, V> is a function on the set of its keys.
Has(m, k) == k \in DOMAIN m
MapSet(m, k, v) == [x \in DOMAIN m \cup {k} |-> IF x = k THEN v ELSE m[x]]
MapDelete(m, k) == [x \in DOMAIN m \ {k} |-> m[x]]
MapRestrict(m, keys) == [x \in DOMAIN m \cap keys |-> m[x]]
EmptyMap == [x \in {} |-> 0]

\* sequenceTimestampsRef.current.get(id); undefined is read as 0, which the
\* code's truthiness tests treat the same way.
TimestampOf(m, k) == IF Has(m, k) THEN m[k] ELSE 0

\* --------------------------------------------------------------- sentences
\* The k-th distinct sentence text an exploring environment submits.
Letter(k) == IF k % 2 = 0 THEN "a" ELSE "b"
RECURSIVE Word(_)
Word(k) == IF k < 2 THEN <<Letter(k)>> ELSE Word(k \div 2) \o <<Letter(k)>>
MultilineSentence == <<"a", NL, "b", Kuten>>
PoolSentence(k) == IF k = 1 THEN MultilineSentence ELSE Word(k) \o <<Kuten>>
BlankSentence == <<" ", NL>>

\* ------------------------------------------------------- refinement service
\* What window.electronAPI.groqRefineText can answer for one prompt.
Polished(s) == <<"r">> \o s
PolishedMultiline(s) == <<"r", NL, NL>> \o s \o <<NL>>
Responses(s) ==
  { [thrown |-> TRUE,  success |-> FALSE, text |-> <<>>],
    [thrown |-> FALSE, success |-> FALSE, text |-> <<>>],
    [thrown |-> FALSE, success |-> TRUE,  text |-> <<>>],
    [thrown |-> FALSE, success |-> TRUE,  text |-> Polished(s)],
    [thrown |-> FALSE, success |-> TRUE,  text |-> PolishedMultiline(s)] }

\* How refineText ends for an answer: by one of its three fallbacks, or refined.
Ending(resp) ==
  IF resp.thrown THEN "failed"
  ELSE IF ~resp.success THEN "failed"
  ELSE IF resp.text = <<>> THEN "failed"
  ELSE "refined"

\* refineText(rawText, context): the value its promise resolves with.
RefineTextResult(rawText, resp) ==
  IF Trim(rawText) = <<>> THEN rawText
  ELSE IF resp.thrown THEN rawText
  ELSE IF ~resp.success THEN rawText
  ELSE IF resp.text = <<>> THEN rawText
  ELSE resp.text

\* The value the continuation in processSentence stores for the sentence.
StoredResult(sentence, resp) == StripNewlines(RefineTextResult(sentence, resp))

\* ------------------------------------------------------------------ state
VARIABLES
  now,                  \* Date.now()
  isMounted,            \* isMountedRef.current
  sequenceId,           \* sequenceIdRef.current: the next id to allocate
  nextToDisplay,        \* nextToDisplayRef.current: the display cursor
  completedResults,     \* completedResultsRef.current: id -> text
  sequenceTimestamps,   \* sequenceTimestampsRef.current: id -> start time
  processedTranscripts, \* processedTranscriptsRef.current, in insertion order
  isDisplaying,         \* isDisplayingRef.current
  displayRetryCount,    \* displayRetryCountRef.current
  refinedText,          \* the React state refinedText
  refinedTextRef,       \* refinedTextRef.current
  inflight,             \* refinement calls of processSentence not yet resolved
  updateQueue,          \* setRefinedText updates React has not applied yet
  microtasks,           \* callbacks queued with queueMicrotask, oldest first
  dispatchLog,          \* console.info "Processing sentence [seq:N]" lines
  displayLog,           \* console.info "Displaying sequence N" lines
  skipLog,              \* console.warn "Skipping ... sequence N" lines
  chainSkips,           \* skips since the last accepted outside call or display
  settled,              \* id -> how its refinement call ended, once it has
  arrivedAhead,         \* some result was stored while a lower id was awaited
  droppedRepeat,        \* processSentence has logged "Skipping duplicate sentence"
  droppedTrigger,       \* a displayCompletedResults call that returned at the flag:
                        \* "none", "waiting" for the next updater run, "observed" by it
  sentenceBuffer,       \* sentenceBufferRef.current
  bufferText,           \* the React state bufferText, as of the last render
  pendingSentences,     \* sentences a running handleFinalTranscript has yet to process
  emitLog,              \* the sentences split off so far, in order, with the id each got
  flushStage,           \* where each handlePasteTranscript call stands, by Enter press
  flushText,            \* the text each has sent to refineText or to the paste call
  finalEnding,          \* how the final refinement of each ended, once it has
  flushAwaiting,        \* the call suspended at "await processSentence(...)", or 0
  userLog,              \* the user's edits and Enter presses, in order
  sockets,              \* the WebSocket objects useDeepgram has created, oldest first
  socketRef,            \* socketRef.current: an index into sockets, or 0 for null
  isConnected,          \* the React state isConnected of useDeepgram
  hookError,            \* the React state error of useDeepgram, "" for null
  transcript,           \* the React state transcript
  interimTranscript,    \* the React state interimTranscript
  hasErrorOccurred,     \* hasErrorOccurred.current
  keepAliveRef,         \* keepAliveIntervalRef.current: the socket of its timer, or 0
  intervals,            \* the sockets whose setInterval timer has not been cleared
  keepAliveSent,        \* the sockets KeepAlive messages were sent on, in order
  messageLog,           \* the messages socket.onmessage has received, in order
  connectLog,           \* the keys connect has been called with, in order
  finalCalls            \* the texts onFinalTranscript has been called with, in order

vars == <<now, isMounted, sequenceId, nextToDisplay, completedResults,
          sequenceTimestamps, processedTranscripts, isDisplaying,
          displayRetryCount, refinedText, refinedTextRef, inflight,
          updateQueue, microtasks, dispatchLog, displayLog, skipLog, chainSkips, settled, arrivedAhead,
          droppedRepeat, droppedTrigger, sentenceBuffer, bufferText, pendingSentences,
          emitLog, flushStage, flushText, finalEnding, flushAwaiting, userLog,
          sockets, socketRef, isConnected, hookError, transcript, interimTranscript,
          hasErrorOccurred, keepAliveRef, intervals, keepAliveSent, messageLog,
          connectLog, finalCalls>>

segmenterVars == <<sentenceBuffer, bufferText, pendingSentences, emitLog>>
handlerVars == <<flushStage, flushText, finalEnding, flushAwaiting, userLog>>
connectionVars == <<sockets, socketRef, isConnected, hookError, hasErrorOccurred,
                    keepAliveRef, intervals, keepAliveSent, connectLog>>
hookVars == <<sockets, socketRef, isConnected, hookError, transcript, interimTranscript,
              hasErrorOccurred, keepAliveRef, intervals, keepAliveSent, messageLog,
              connectLog, finalCalls>>
pipelineVars == <<now, isMounted, sequenceId, nextToDisplay, completedResults,
                  sequenceTimestamps, processedTranscripts, isDisplaying,
                  displayRetryCount, refinedText, refinedTextRef, inflight,
                  updateQueue, microtasks, dispatchLog, displayLog, skipLog, chainSkips, settled,
                  arrivedAhead, droppedRepeat, droppedTrigger>>

Init ==
  /\ now = StartMs
  /\ isMounted = TRUE
  /\ sequenceId = 0
  /\ nextToDisplay = 0
  /\ completedResults = EmptyMap
  /\ sequenceTimestamps = EmptyMap
  /\ processedTranscripts = <<>>
  /\ isDisplaying = FALSE
  /\ displayRetryCount = 0
  /\ refinedText = <<>>
  /\ refinedTextRef = <<>>
  /\ inflight = {}
  /\ updateQueue = <<>>
  /\ microtasks = <<>>
  /\ dispatchLog = <<>>
  /\ displayLog = <<>>
  /\ skipLog = <<>>
  /\ chainSkips = 0
  /\ settled = EmptyMap
  /\ arrivedAhead = FALSE
  /\ droppedRepeat = FALSE
  /\ droppedTrigger = "none"
  /\ sentenceBuffer = <<>>
  /\ bufferText = <<>>
  /\ pendingSentences = <<>>
  /\ emitLog = <<>>
  /\ flushStage = <<>>
  /\ flushText = <<>>
  /\ finalEnding = <<>>
  /\ flushAwaiting = 0
  /\ userLog = <<>>
  /\ sockets = <<>>
  /\ socketRef = 0
  /\ isConnected = FALSE
  /\ hookError = ""
  /\ transcript = <<>>
  /\ interimTranscript = <<>>
  /\ hasErrorOccurred = FALSE
  /\ keepAliveRef = 0
  /\ intervals = {}
  /\ keepAliveSent = <<>>
  /\ messageLog = <<>>
  /\ connectLog = <<>>
  /\ finalCalls = <<>>

\* ------------------------------------------- displayCompletedResults: call
\* The synchronous part of displayCompletedResults: both guards, the flag,
\* the captured Date.now(), and the update handed to setRefinedText.
DisplayPasses(mounted, displaying) == mounted /\ ~displaying

DrainUpdate(t) == [kind |-> "drain", now |-> t]

QueueAfterDisplayCall(queue, mounted, displaying, t) ==
  IF DisplayPasses(mounted, displaying) THEN Append(queue, DrainUpdate(t)) ELSE queue

FlagAfterDisplayCall(mounted, displaying) ==
  IF DisplayPasses(mounted, displaying) THEN TRUE ELSE displaying

\* Whether the call returned at the in-progress flag without queueing a pass.
TriggerAfterDisplayCall(trigger, mounted, displaying) ==
  IF DisplayPasses(mounted, displaying) THEN "none"
  ELSE IF mounted /\ displaying THEN "waiting" ELSE trigger

\* ---------------------------------------- displayCompletedResults: updater
\* while (completedResultsRef.current.has(nextToDisplayRef.current)) ...
DrainEndAfterOne(results, cursor) ==
  IF Has(results, cursor) THEN cursor + 1 ELSE cursor

\* The mutation in which the loop never runs.
DrainEndAtCursor(results, cursor) == cursor

RECURSIVE DrainEnd(_, _)
DrainEnd(results, cursor) ==
  IF Has(results, cursor) THEN DrainEnd(results, cursor + 1) ELSE cursor

RECURSIVE DrainedPartsNewestFirst(_, _, _)
DrainedPartsNewestFirst(results, from, to) ==
  IF from >= to THEN <<>>
  ELSE DrainedPartsNewestFirst(results, from + 1, to) \o <<results[from]>>

RECURSIVE DrainedPartsWithStale(_, _, _)
DrainedPartsWithStale(results, from, to) ==
  IF to <= 0 THEN <<>>
  ELSE DrainedPartsWithStale(results, from, to - 1)
         \o (IF Has(results, to - 1) THEN <<results[to - 1]>> ELSE <<>>)

RECURSIVE DrainedParts(_, _, _)
DrainedParts(results, from, to) ==
  IF from >= to THEN <<>>
  ELSE <<results[from]>> \o DrainedParts(results, from + 1, to)

RECURSIVE IdsFrom(_, _)
IdsFrom(from, to) == IF from >= to THEN <<>> ELSE <<from>> \o IdsFrom(from + 1, to)

\* The stuck-sequence rule applied to the id at the cursor after the loop.
SkipRuleMissingAtThreshold(gap, oldestTimestamp, t) ==
  IF gap > MAX_SEQUENCE_GAP
  THEN IF oldestTimestamp # 0 /\ t - oldestTimestamp > SEQUENCE_TIMEOUT_MS
       THEN "timeout"
       ELSE IF oldestTimestamp = 0 /\ gap >= MAX_SEQUENCE_GAP * 2
            THEN "missing"
            ELSE "none"
  ELSE "none"
SkipRuleAtThreshold(gap, oldestTimestamp, t) ==
  IF gap >= MAX_SEQUENCE_GAP
  THEN IF oldestTimestamp # 0 /\ t - oldestTimestamp > SEQUENCE_TIMEOUT_MS
       THEN "timeout"
       ELSE IF oldestTimestamp = 0 /\ gap > MAX_SEQUENCE_GAP * 2
            THEN "missing"
            ELSE "none"
  ELSE "none"
SkipRuleMissingAtAnyGap(gap, oldestTimestamp, t) ==
  IF oldestTimestamp # 0
  THEN IF gap > MAX_SEQUENCE_GAP /\ t - oldestTimestamp > SEQUENCE_TIMEOUT_MS
       THEN "timeout" ELSE "none"
  ELSE "missing"
SkipRule(gap, oldestTimestamp, t) ==
  IF gap > MAX_SEQUENCE_GAP
  THEN IF oldestTimestamp # 0 /\ t - oldestTimestamp > SEQUENCE_TIMEOUT_MS
       THEN "timeout"
       ELSE IF oldestTimestamp = 0 /\ gap > MAX_SEQUENCE_GAP * 2
            THEN "missing"
            ELSE "none"
  ELSE "none"

\* nextToDisplayRef.current++ in either branch of the rule.
CursorAfterSkipToNewest(cursor, rule) ==
  IF rule = "none" THEN cursor ELSE sequenceId
CursorAfterSkip(cursor, rule) ==
  IF rule = "none" THEN cursor ELSE cursor + 1

\* if (displayRetryCountRef.current < MAX_DISPLAY_RETRIES)
ReschedulesAlways(count) == TRUE
ReschedulesOnceMore(count) == count <= MAX_DISPLAY_RETRIES
Reschedules(count) == count < MAX_DISPLAY_RETRIES

\* sortedEntries.slice(-MAX_COMPLETED_RESULTS): the keys that are kept.
KeptKeysLowest(results) ==
  IF Cardinality(DOMAIN results) > MAX_COMPLETED_RESULTS
  THEN {k \in DOMAIN results :
          Cardinality({j \in DOMAIN results : j < k}) < MAX_COMPLETED_RESULTS}
  ELSE DOMAIN results
KeptKeys(results) ==
  IF Cardinality(DOMAIN results) > MAX_COMPLETED_RESULTS
  THEN {k \in DOMAIN results :
          Cardinality({j \in DOMAIN results : j > k}) < MAX_COMPLETED_RESULTS}
  ELSE DOMAIN results

\* The timestamps left by the size-cap step.
CapTimestamps(stamps, resultsBefore, resultsAfter, cursor) ==
  IF Cardinality(DOMAIN resultsBefore) > MAX_COMPLETED_RESULTS
  THEN MapRestrict(stamps, {k \in DOMAIN stamps : Has(resultsAfter, k) \/ k >= cursor})
  ELSE stamps

\* One run of the function handed to setRefinedText, on the refs as they are
\* when React runs it; t is the Date.now() captured by the call.
DrainPass(prev, t) ==
  LET end      == DrainEnd(completedResults, nextToDisplay)
      shown    == IdsFrom(nextToDisplay, end)
      parts    == (IF prev # <<>> THEN <<prev>> ELSE <<>>)
                    \o DrainedParts(completedResults, nextToDisplay, end)
      drainedK == {k \in DOMAIN completedResults : k >= nextToDisplay /\ k < end}
      results1 == MapRestrict(completedResults, DOMAIN completedResults \ drainedK)
      stamps1  == MapRestrict(sequenceTimestamps,
                              DOMAIN sequenceTimestamps \ (nextToDisplay .. (end - 1)))
      retry1   == IF end > nextToDisplay THEN 0 ELSE displayRetryCount
      gap      == sequenceId - end
      rule     == SkipRule(gap, TimestampOf(stamps1, end), t)
      cursor2  == CursorAfterSkip(end, rule)
      stamps2  == IF rule = "timeout" THEN MapDelete(stamps1, end) ELSE stamps1
      results3 == MapRestrict(results1, KeptKeys(results1))
      stamps3  == CapTimestamps(stamps2, results1, results3, cursor2)
      again    == rule # "none" /\ isMounted
      retry2   == IF again THEN retry1 + 1 ELSE retry1
      resched  == again /\ Reschedules(retry2)
  IN [ cursor     |-> cursor2,
       results    |-> results3,
       stamps     |-> stamps3,
       retryCount |-> IF again /\ ~resched THEN 0 ELSE retry2,
       microtask  |-> IF resched THEN "retry" ELSE "clear",
       shown      |-> shown,
       skipped    |-> IF rule = "none" THEN <<>> ELSE <<end>>,
       text       |-> Join(parts) ]

\* React applies the oldest pending setRefinedText update.
RunUpdate ==
  /\ isMounted
  /\ updateQueue # <<>>
  /\ Head(updateQueue).kind = "drain"
  /\ LET r == DrainPass(refinedText, Head(updateQueue).now) IN
       /\ nextToDisplay' = r.cursor
       /\ completedResults' = r.results
       /\ sequenceTimestamps' = r.stamps
       /\ displayRetryCount' = r.retryCount
       /\ microtasks' = Append(microtasks, r.microtask)
       /\ displayLog' = displayLog \o r.shown
       /\ skipLog' = skipLog \o r.skipped
       /\ chainSkips' = (IF r.shown # <<>> THEN 0 ELSE chainSkips) + Len(r.skipped)
       /\ refinedText' = r.text
       /\ refinedTextRef' = r.text
  /\ updateQueue' = Tail(updateQueue)
  /\ droppedTrigger' = IF droppedTrigger = "waiting" THEN "observed" ELSE droppedTrigger
  /\ UNCHANGED <<now, isMounted, sequenceId, processedTranscripts, isDisplaying,
                 inflight, dispatchLog, settled, arrivedAhead, droppedRepeat>>
  /\ UNCHANGED segmenterVars
  /\ UNCHANGED handlerVars
  /\ UNCHANGED hookVars

\* isDisplayingRef.current = false, the first statement of every callback
\* the updater queues.
FlagLeftSet(displaying) == displaying
FlagAfterPass(displaying) == FALSE

\* The oldest callback queued with queueMicrotask runs.
RunMicrotask ==
  /\ microtasks # <<>>
  /\ flushAwaiting = 0
  /\ microtasks' = Tail(microtasks)
  /\ IF Head(microtasks) = "retry"
     THEN /\ isDisplaying' = FlagAfterDisplayCall(isMounted, FlagAfterPass(isDisplaying))
          /\ updateQueue' = QueueAfterDisplayCall(updateQueue, isMounted,
                                                  FlagAfterPass(isDisplaying), now)
          /\ droppedTrigger' = TriggerAfterDisplayCall(droppedTrigger, isMounted,
                                                       FlagAfterPass(isDisplaying))
     ELSE /\ isDisplaying' = FlagAfterPass(isDisplaying)
          /\ UNCHANGED <<updateQueue, droppedTrigger>>
  /\ UNCHANGED <<now, isMounted, sequenceId, nextToDisplay, completedResults,
                 sequenceTimestamps, processedTranscripts, displayRetryCount,
                 refinedText, refinedTextRef, inflight, dispatchLog, displayLog,
                 skipLog, chainSkips, settled, arrivedAhead, droppedRepeat>>
  /\ UNCHANGED segmenterVars
  /\ UNCHANGED handlerVars
  /\ UNCHANGED hookVars

\* ---------------------------------------------------------- processSentence
ProcessedHas(record, text) == \E i \in 1 .. Len(record) : record[i].text = text

\* The mutation of the size cap that keeps the oldest half.
CapProcessedOldestHalf(record) ==
  IF Len(record) > MAX_PROCESSED THEN SubSeq(record, 1, MAX_PROCESSED \div 2) ELSE record

\* entries.slice(-Math.floor(MAX_PROCESSED / 2)) once the size passes the cap
CapProcessed(record) ==
  IF Len(record) > MAX_PROCESSED
  THEN SubSeq(record, Len(record) - (MAX_PROCESSED \div 2) + 1, Len(record))
  ELSE record

\* The mutation of the age sweep of the record that removes nothing.
AgeProcessedNever(record, t) == record

IsFresh(entry, t) == ~(t - entry.time > CLEANUP_AGE_MS)
AgeProcessed(record, t) == SelectSeq(record, LAMBDA e : IsFresh(e, t))

\* The ids whose timestamps the age sweep of processSentence removes.
AgedIdsNone(stamps, t) == {}
AgedIdsAtTimeout(stamps, t) == {k \in DOMAIN stamps : t - stamps[k] > SEQUENCE_TIMEOUT_MS}
AgedIds(stamps, t) == {k \in DOMAIN stamps : t - stamps[k] > CLEANUP_AGE_MS}

\* The async closure of processSentence runs up to its await: the call is out.
LaunchNothing(calls, id, sentence) == calls
Launch(calls, id, sentence) == calls \cup {[seq |-> id, sentence |-> sentence]}

\* const sequenceId = sequenceIdRef.current++
AllocatedId(counter) == counter
CounterAfterLeavingGap(counter) == counter + 2
CounterAfter(counter) == counter + 1

\* The second early return of processSentence is taken.
IsRepeat(sentence) ==
  Trim(sentence) # <<>> /\ ProcessedHas(processedTranscripts, sentence)

\* Whether processSentence returns before allocating an id.
RejectsBlankOnly(sentence) == Trim(sentence) = <<>>
Rejects(sentence) ==
  Trim(sentence) = <<>> \/ ProcessedHas(processedTranscripts, sentence)

ProcessSentence(sentence) ==
  /\ droppedRepeat' = (droppedRepeat \/ IsRepeat(sentence))
  /\ IF Rejects(sentence)
     THEN UNCHANGED <<sequenceId, processedTranscripts, sequenceTimestamps,
                      completedResults, inflight, dispatchLog>>
     ELSE LET id     == AllocatedId(sequenceId)
              stamps == MapSet(sequenceTimestamps, id, now)
              aged   == AgedIds(stamps, now)
          IN /\ sequenceId' = CounterAfter(sequenceId)
             /\ processedTranscripts' =
                  AgeProcessed(CapProcessed(Append(processedTranscripts,
                                                   [text |-> sentence, time |-> now])), now)
             /\ sequenceTimestamps' = MapRestrict(stamps, DOMAIN stamps \ aged)
             /\ completedResults' =
                  MapRestrict(completedResults, DOMAIN completedResults \ aged)
             /\ inflight' = Launch(inflight, id, sentence)
             /\ dispatchLog' = Append(dispatchLog, [seq |-> id, sentence |-> sentence,
                                                    time |-> now])
  /\ UNCHANGED <<now, isMounted, nextToDisplay, isDisplaying, displayRetryCount,
                 refinedText, refinedTextRef, updateQueue, microtasks, displayLog,
                 skipLog, chainSkips, settled, arrivedAhead, droppedTrigger>>

\* ------------------------------------- the continuation of a refinement call
\* The reply of window.electronAPI.groqRefineText arrives in a task of its
\* own, as a timer or a key press does: the callbacks queued with
\* queueMicrotask have run by then, and so has the loop of
\* handleFinalTranscript, which never waits for a task.
\* A task starts when no callback of the previous one is left: no queued
\* microtask and no async function suspended at the await of a settled promise.
TaskMayStart == microtasks = <<>> /\ pendingSentences = <<>> /\ flushAwaiting = 0

Resolve(call, resp) ==
  /\ call \in inflight
  /\ TaskMayStart
  /\ inflight' = inflight \ {call}
  /\ settled' = MapSet(settled, call.seq, Ending(resp))
  /\ arrivedAhead' = (arrivedAhead \/ (isMounted /\ call.seq > nextToDisplay
                                        /\ ~Has(completedResults, nextToDisplay)))
  /\ IF isMounted
     THEN /\ completedResults' =
               MapSet(completedResults, call.seq, StoredResult(call.sentence, resp))
          /\ isDisplaying' = FlagAfterDisplayCall(isMounted, isDisplaying)
          /\ updateQueue' = QueueAfterDisplayCall(updateQueue, isMounted, isDisplaying, now)
          /\ droppedTrigger' = TriggerAfterDisplayCall(droppedTrigger, isMounted,
                                                       isDisplaying)
     ELSE UNCHANGED <<completedResults, isDisplaying, updateQueue, droppedTrigger>>
  /\ UNCHANGED <<now, isMounted, sequenceId, nextToDisplay, sequenceTimestamps,
                 processedTranscripts, displayRetryCount, refinedText, refinedTextRef,
                 microtasks, dispatchLog, displayLog, skipLog, droppedRepeat>>
  /\ chainSkips' = IF DisplayPasses(isMounted, isDisplaying) THEN 0 ELSE chainSkips
  /\ UNCHANGED segmenterVars
  /\ UNCHANGED handlerVars
  /\ UNCHANGED hookVars

\* ------------------------------------------------------------------- clock
Tick ==
  /\ now < StartMs + MaxTicks * TickMs
  /\ now' = now + TickMs
  /\ UNCHANGED <<isMounted, sequenceId, nextToDisplay, completedResults,
                 sequenceTimestamps, processedTranscripts, isDisplaying,
                 displayRetryCount, refinedText, refinedTextRef, inflight,
                 updateQueue, microtasks, dispatchLog, displayLog, skipLog, chainSkips, settled, arrivedAhead,
                 droppedRepeat, droppedTrigger>>
  /\ UNCHANGED segmenterVars
  /\ UNCHANGED handlerVars
  /\ UNCHANGED hookVars

\* --------------------------------------------- the sockets of useDeepgram
\* A WebSocket object: its readyState, whether its error and close events
\* have been delivered, and whether disconnect has closed it.
NewSocket ==
  [readyState |-> "CONNECTING", errored |-> FALSE, closed |-> FALSE, disconnected |-> FALSE]

IsLive(socket) == socket.readyState \in {"OPEN", "CONNECTING"}

\* socketRef.current?.readyState is OPEN or CONNECTING
RefIsLive(all, ref) == ref # 0 /\ IsLive(all[ref])

\* WebSocket.close(): an OPEN or CONNECTING socket starts closing.
AfterClose(socket) ==
  IF IsLive(socket) THEN [socket EXCEPT !.readyState = "CLOSING"] ELSE socket

\* clearInterval(keepAliveIntervalRef.current.id)
KeepTimers(timers, ref) == timers
ClearTimerOf(timers, ref) == IF ref = 0 THEN timers ELSE timers \ {ref}

\* --------------------------------------------------------------- disconnect
\* What disconnect does to the hook.
DisconnectHook ==
  /\ IF socketRef # 0
     THEN /\ sockets' = [sockets EXCEPT
                          ![socketRef] = [AfterClose(sockets[socketRef])
                                            EXCEPT !.disconnected = TRUE]]
          /\ socketRef' = 0
     ELSE UNCHANGED <<sockets, socketRef>>
  /\ intervals' = ClearTimerOf(intervals, keepAliveRef)
  /\ keepAliveRef' = 0
  /\ isConnected' = FALSE
  /\ interimTranscript' = <<>>
  /\ UNCHANGED <<hookError, hasErrorOccurred, keepAliveSent, connectLog, transcript,
                 messageLog, finalCalls>>

Disconnect ==
  /\ DisconnectHook
  /\ UNCHANGED <<pipelineVars, segmenterVars, handlerVars>>

\* ------------------------------------------------------------------ unmount
\* React unmounts App: the cleanup of the mount effect clears isMountedRef and
\* the cleanups of App and of the hook call disconnect.  Updates React has
\* queued and callbacks of calls that are out stay as they are.
Unmount ==
  /\ isMounted
  /\ microtasks = <<>> /\ pendingSentences = <<>> /\ flushAwaiting = 0
  /\ isMounted' = FALSE
  /\ DisconnectHook
  /\ UNCHANGED <<now, sequenceId, nextToDisplay, completedResults,
                 sequenceTimestamps, processedTranscripts, isDisplaying,
                 displayRetryCount, refinedText, refinedTextRef, inflight,
                 updateQueue, microtasks, dispatchLog, displayLog, skipLog, chainSkips, settled,
                 arrivedAhead, droppedRepeat, droppedTrigger>>
  /\ UNCHANGED <<segmenterVars, handlerVars>>

\* ------------------------------------------------------------- environment
\* The sentence texts the caller of processSentence submits: the next unused
\* text of the pool, any text submitted before, a blank one, the empty one.
SentenceInputs ==
  {PoolSentence(k) : k \in 0 .. sequenceId} \cup {BlankSentence, <<>>}

Submit ==
  /\ sequenceId < MaxSeq
  /\ \E s \in SentenceInputs : ProcessSentence(s)
  /\ UNCHANGED segmenterVars
  /\ UNCHANGED handlerVars
  /\ UNCHANGED hookVars

Settle == \E call \in inflight : \E resp \in Responses(call.sentence) : Resolve(call, resp)

Next == Submit \/ Settle \/ RunUpdate \/ RunMicrotask \/ Tick \/ Unmount

Spec == Init /\ [][Next]_vars

\* ---------------------------------------------------- the settling scenario
\* Distinct sentences whose calls return in any order, refined or failed.
\* React applies every update it has queued, and the event loop runs every
\* callback queued with queueMicrotask.
LiveSubmit ==
  /\ sequenceId < LiveSeq
  /\ ProcessSentence(PoolSentence(sequenceId))
  /\ UNCHANGED segmenterVars
  /\ UNCHANGED handlerVars
  /\ UNCHANGED hookVars

LiveSettle ==
  \E call \in inflight :
    \E resp \in {[thrown |-> TRUE, success |-> FALSE, text |-> <<>>],
                 [thrown |-> FALSE, success |-> TRUE, text |-> Polished(call.sentence)]} :
      Resolve(call, resp)

LiveNext == LiveSubmit \/ LiveSettle \/ RunUpdate \/ RunMicrotask \/ Unmount

LiveSpec == Init /\ [][LiveNext]_vars /\ WF_vars(RunUpdate) /\ WF_vars(RunMicrotask)

\* ---------------------------------------------------- handleFinalTranscript
Delimiters == {Kuten, FullQuestion, FullExclamation}

\* sentenceBufferRef.current.split(/([...])/) followed by the pairing loop:
\* the trimmed, delimiter-terminated sentences and the text left over.
RECURSIVE SplitBufferDroppingRest(_, _, _)
SplitBufferDroppingRest(buf, seg, out) ==
  IF buf = <<>> THEN [sentences |-> out, rest |-> <<>>]
  ELSE IF Head(buf) \in Delimiters
       THEN SplitBufferDroppingRest(Tail(buf), <<>>,
                        IF Trim(seg) # <<>> THEN Append(out, Trim(seg) \o <<Head(buf)>>)
                        ELSE out)
       ELSE SplitBufferDroppingRest(Tail(buf), Append(seg, Head(buf)), out)

RECURSIVE SplitBufferKeepingBlank(_, _, _)
SplitBufferKeepingBlank(buf, seg, out) ==
  IF buf = <<>> THEN [sentences |-> out, rest |-> seg]
  ELSE IF Head(buf) \in Delimiters
       THEN SplitBufferKeepingBlank(Tail(buf), <<>>, Append(out, Trim(seg) \o <<Head(buf)>>))
       ELSE SplitBufferKeepingBlank(Tail(buf), Append(seg, Head(buf)), out)

\* The mutation that also splits on the ASCII marks.
RECURSIVE SplitBufferAtAscii(_, _, _)
SplitBufferAtAscii(buf, seg, out) ==
  IF buf = <<>> THEN [sentences |-> out, rest |-> seg]
  ELSE IF Head(buf) \in {Kuten, FullQuestion, FullExclamation, ".", "?", "!"}
       THEN SplitBufferAtAscii(Tail(buf), <<>>,
                        IF Trim(seg) # <<>> THEN Append(out, Trim(seg) \o <<Head(buf)>>)
                        ELSE out)
       ELSE SplitBufferAtAscii(Tail(buf), Append(seg, Head(buf)), out)

RECURSIVE SplitBuffer(_, _, _)
SplitBuffer(buf, seg, out) ==
  IF buf = <<>> THEN [sentences |-> out, rest |-> seg]
  ELSE IF Head(buf) \in Delimiters
       THEN SplitBuffer(Tail(buf), <<>>,
                        IF Trim(seg) # <<>> THEN Append(out, Trim(seg) \o <<Head(buf)>>)
                        ELSE out)
       ELSE SplitBuffer(Tail(buf), Append(seg, Head(buf)), out)

\* for (const sentence of sentences): the sentence taken next, and the rest.
TakePendingNewestFirst(pending) ==
  [item |-> pending[Len(pending)], rest |-> SubSeq(pending, 1, Len(pending) - 1)]
TakePending(pending) == [item |-> Head(pending), rest |-> Tail(pending)]

\* The id the processSentence call of this step allocated, or -1.
IdGivenInStep ==
  IF Len(dispatchLog') > Len(dispatchLog) THEN dispatchLog'[Len(dispatchLog')].seq ELSE -1

\* One turn of the loop: await processSentence(sentence.trim()).
ProcessPending(pending, log) ==
  LET take == TakePending(pending) IN
    /\ ProcessSentence(Trim(take.item.sentence))
    /\ pendingSentences' = take.rest
    /\ emitLog' = [log EXCEPT ![take.item.index].seq = IdGivenInStep]

\* handleFinalTranscript up to the first await.  A final transcript arrives
\* in a task of its own, and processSentence never suspends, so the loop of
\* the previous call has finished in that call's own microtasks.
HandleFinalTranscript(text) ==
  /\ pendingSentences = <<>>
  /\ IF Trim(text) = <<>>
     THEN UNCHANGED <<pipelineVars, segmenterVars>>
     ELSE LET r       == SplitBuffer(sentenceBuffer \o text, <<>>, <<>>)
              base    == Len(emitLog)
              log     == emitLog \o [i \in 1 .. Len(r.sentences) |->
                                       [sentence |-> r.sentences[i], seq |-> -1]]
              pending == [i \in 1 .. Len(r.sentences) |->
                            [index |-> base + i, sentence |-> r.sentences[i]]]
          IN /\ sentenceBuffer' = r.rest
             /\ bufferText' = bufferText
             /\ IF pending = <<>>
                THEN /\ emitLog' = log
                     /\ pendingSentences' = <<>>
                     /\ UNCHANGED <<now, isMounted, sequenceId, nextToDisplay,
                                    completedResults, sequenceTimestamps,
                                    processedTranscripts, isDisplaying,
                                    displayRetryCount, refinedText, refinedTextRef,
                                    inflight, updateQueue, microtasks, dispatchLog,
                                    displayLog, skipLog, chainSkips, settled, arrivedAhead,
                                    droppedRepeat, droppedTrigger>>
                ELSE ProcessPending(pending, log)

\* The loop resumes after its await.
ContinueTranscript ==
  /\ pendingSentences # <<>>
  /\ ProcessPending(pendingSentences, emitLog)
  /\ UNCHANGED <<sentenceBuffer, bufferText>>
  /\ UNCHANGED handlerVars
  /\ UNCHANGED hookVars

\* React renders App.  Every write of sentenceBufferRef.current is followed,
\* in the same synchronous block, by setBufferText of the value written, so
\* the state takes the value the ref has at the render.
Render ==
  /\ isMounted
  /\ microtasks = <<>> /\ pendingSentences = <<>>
  /\ bufferText # sentenceBuffer
  /\ bufferText' = sentenceBuffer
  /\ UNCHANGED <<pipelineVars, sentenceBuffer, pendingSentences, emitLog>>
  /\ UNCHANGED handlerVars
  /\ UNCHANGED hookVars

\* -------------------------------------------------- the segmenter scenario
Fragments ==
  { <<"a", Kuten>>, <<"b">>, <<"a", FullQuestion, " ", Kuten, "b", FullExclamation>>,
    <<" ">>, <<Kuten>>, <<>> }

Ingest ==
  /\ sequenceId < SegSeq
  /\ Len(sentenceBuffer) < MaxBuffer
  /\ Len(emitLog) < MaxEmit
  /\ \E text \in Fragments : HandleFinalTranscript(text)
  /\ UNCHANGED handlerVars
  /\ UNCHANGED hookVars

SegSettle ==
  \E call \in inflight :
    Resolve(call, [thrown |-> FALSE, success |-> TRUE, text |-> Polished(call.sentence)])

SegNext ==
  \/ Ingest \/ ContinueTranscript \/ SegSettle \/ RunUpdate \/ RunMicrotask
  \/ Render \/ Unmount

SegSpec == Init /\ [][SegNext]_vars

\* ------------------------------------------------ the stuck-call scenario
\* A burst of distinct sentences; each refinement call returns refined text,
\* in any order, or never returns.
BurstSubmit ==
  /\ sequenceId < BurstSeq
  /\ ProcessSentence(PoolSentence(sequenceId))
  /\ UNCHANGED segmenterVars
  /\ UNCHANGED handlerVars
  /\ UNCHANGED hookVars

BurstSettle ==
  \E call \in inflight :
    Resolve(call, [thrown |-> FALSE, success |-> TRUE, text |-> Polished(call.sentence)])

\* All sentences of the burst but possibly the last are dispatched at once.
BurstTick ==
  /\ sequenceId >= BurstSeq - 1
  /\ now < StartMs + BurstTicks * TickMs
  /\ Tick

BurstNext == BurstSubmit \/ BurstSettle \/ RunUpdate \/ RunMicrotask \/ BurstTick \/ Unmount

BurstSpec == Init /\ [][BurstNext]_vars

\* ------------------------------------------------ the long-stall scenario
\* A longer burst in which the first StuckCalls refinement calls never
\* return, so that the drain has to skip many ids in a row.
StallSubmit ==
  /\ sequenceId < StallSeq
  /\ ProcessSentence(PoolSentence(sequenceId))
  /\ UNCHANGED segmenterVars
  /\ UNCHANGED handlerVars
  /\ UNCHANGED hookVars

StallSettle ==
  \E call \in inflight :
    /\ call.seq >= StuckCalls
    /\ Resolve(call, [thrown |-> FALSE, success |-> TRUE, text |-> Polished(call.sentence)])

StallTick == sequenceId >= StallSeq - 1 /\ Tick

StallNext == StallSubmit \/ StallSettle \/ RunUpdate \/ RunMicrotask \/ StallTick \/ Unmount

StallSpec == Init /\ [][StallNext]_vars

\* ------------------------------------------------------ the flood scenario
\* One sentence, a pause of any explored length, then more distinct
\* sentences than the recent-sentence record holds, with the first sentence
\* submitted again at any point.
FloodSubmit ==
  /\ sequenceId < FloodSeq
  /\ \E s \in {PoolSentence(sequenceId), PoolSentence(0)} : ProcessSentence(s)
  /\ UNCHANGED segmenterVars
  /\ UNCHANGED handlerVars
  /\ UNCHANGED hookVars

FloodTick == sequenceId = 1 /\ Tick

FloodNext == FloodSubmit \/ FloodTick \/ Unmount

FloodSpec == Init /\ [][FloodNext]_vars

\* ------------------------------------------------- the textarea's onChange
EndsWith(s, suffix) ==
  Len(suffix) <= Len(s) /\ SubSeq(s, Len(s) - Len(suffix) + 1, Len(s)) = suffix

\* The part of the edited value kept as refined text: the value without
\* the buffer text of the render the handler belongs to.
RefinedPart(newValue, shownBuffer) ==
  IF shownBuffer # <<>> /\ EndsWith(newValue, shownBuffer)
  THEN SubSeq(newValue, 1, Len(newValue) - Len(shownBuffer))
  ELSE newValue

\* setRefinedText(value)
ReplaceUpdate(text) == [kind |-> "set", text |-> text]

EditText(newValue) ==
  /\ isMounted
  /\ TaskMayStart
  /\ updateQueue' = Append(updateQueue, ReplaceUpdate(RefinedPart(newValue, bufferText)))
  /\ refinedTextRef' = RefinedPart(newValue, bufferText)
  /\ userLog' = Append(userLog, "edit")
  /\ UNCHANGED <<now, isMounted, sequenceId, nextToDisplay, completedResults,
                 sequenceTimestamps, processedTranscripts, isDisplaying,
                 displayRetryCount, refinedText, inflight, microtasks, dispatchLog,
                 displayLog, skipLog, chainSkips, settled, arrivedAhead, droppedRepeat,
                 droppedTrigger, flushStage, flushText, finalEnding, flushAwaiting>>
  /\ UNCHANGED segmenterVars
  /\ UNCHANGED hookVars

\* React applies a queued setRefinedText(value).
RunReplace ==
  /\ isMounted
  /\ updateQueue # <<>>
  /\ Head(updateQueue).kind = "set"
  /\ refinedText' = Head(updateQueue).text
  /\ updateQueue' = Tail(updateQueue)
  /\ UNCHANGED <<now, isMounted, sequenceId, nextToDisplay, completedResults,
                 sequenceTimestamps, processedTranscripts, isDisplaying,
                 displayRetryCount, refinedTextRef, inflight, microtasks, dispatchLog,
                 displayLog, skipLog, chainSkips, settled, arrivedAhead, droppedRepeat,
                 droppedTrigger>>
  /\ UNCHANGED segmenterVars
  /\ UNCHANGED handlerVars
  /\ UNCHANGED hookVars

\* --------------------------- handlePasteTranscript and flushBufferAndRefine
\* The calls of handlePasteTranscript made so far, one for each Enter press.
\* The keydown handler starts a call whatever the earlier ones are doing.
Flows == 1 .. Len(flushStage)

\* The Enter key: flushBufferAndRefine up to its first await.  With text in
\* the buffer that is "await processSentence(...)", whose continuation is a
\* microtask of the same task; without, it is the 500 ms timer.
PressEnter ==
  /\ isMounted
  /\ TaskMayStart
  /\ IF Trim(sentenceBuffer) # <<>>
     THEN /\ ProcessSentence(Trim(sentenceBuffer))
          /\ flushAwaiting' = Len(flushStage) + 1
     ELSE /\ UNCHANGED pipelineVars
          /\ flushAwaiting' = 0
  /\ flushStage' = Append(flushStage, "flushed")
  /\ flushText' = Append(flushText, <<>>)
  /\ finalEnding' = Append(finalEnding, "none")
  /\ userLog' = Append(userLog, "enter")
  /\ UNCHANGED <<sentenceBuffer, bufferText, pendingSentences, emitLog>>
  /\ UNCHANGED hookVars

\* flushBufferAndRefine resumes after "await processSentence(...)": it clears
\* the buffer and sets its timer.
ContinueFlush ==
  /\ flushAwaiting # 0
  /\ sentenceBuffer' = <<>>
  /\ flushAwaiting' = 0
  /\ UNCHANGED <<pipelineVars, bufferText, pendingSentences, emitLog>>
  /\ UNCHANGED <<flushStage, flushText, finalEnding, userLog>>
  /\ UNCHANGED hookVars

\* const textToPaste = refinedTextRef.current || interimTranscript
TextToPaste(ref, interim) == IF ref # <<>> THEN ref ELSE interim

\* The two early returns of handlePasteTranscript, or the paste call.
PasteDecision(text) ==
  IF text = <<>> THEN "idle"
  ELSE IF Len(text) > MAX_PASTE_LENGTH THEN "idle"
  ELSE "pasting"

\* The interim transcript the hook holds when the handler reads it.
InterimInputs == {<<>>, <<"i">>}

\* await new Promise(resolve => setTimeout(resolve, 500)): the wait is for
\* the timer alone, whatever refinement calls are still out.
GraceWaitsForCalls(calls) == calls = {}
GraceElapsed(calls) == TRUE

\* The timer of call f fires: the final refinement of the whole text is
\* sent, or with nothing to refine the handler goes on to paste.  Timers of
\* the same delay fire in the order they were set.
FlushTimer(f) ==
  /\ TaskMayStart
  /\ flushStage[f] = "flushed"
  /\ \A g \in 1 .. (f - 1) : flushStage[g] # "flushed"
  /\ GraceElapsed(inflight)
  /\ IF Trim(refinedTextRef) # <<>>
     THEN /\ flushStage' = [flushStage EXCEPT ![f] = "refining"]
          /\ flushText' = [flushText EXCEPT ![f] = refinedTextRef]
     ELSE \E interim \in InterimInputs :
            LET text == TextToPaste(refinedTextRef, interim) IN
              /\ flushStage' = [flushStage EXCEPT ![f] = PasteDecision(text)]
              /\ flushText' = [flushText EXCEPT ![f] =
                                 IF PasteDecision(text) = "pasting" THEN text ELSE <<>>]
  /\ UNCHANGED <<pipelineVars, userLog, finalEnding, flushAwaiting>>
  /\ UNCHANGED segmenterVars
  /\ UNCHANGED hookVars

\* The final refinement of call f returns and replaces the refined text.
FinalRefined(f) ==
  /\ TaskMayStart
  /\ flushStage[f] = "refining"
  /\ \E resp \in Responses(flushText[f]) : \E interim \in InterimInputs :
       LET final == StripNewlines(RefineTextResult(flushText[f], resp))
           text  == TextToPaste(final, interim)
       IN /\ updateQueue' = Append(updateQueue, ReplaceUpdate(final))
          /\ refinedTextRef' = final
          /\ finalEnding' = [finalEnding EXCEPT ![f] = Ending(resp)]
          /\ flushStage' = [flushStage EXCEPT ![f] = PasteDecision(text)]
          /\ flushText' = [flushText EXCEPT ![f] =
                             IF PasteDecision(text) = "pasting" THEN text ELSE <<>>]
  /\ UNCHANGED <<now, isMounted, sequenceId, nextToDisplay, completedResults,
                 sequenceTimestamps, processedTranscripts, isDisplaying,
                 displayRetryCount, refinedText, inflight, microtasks, dispatchLog,
                 displayLog, skipLog, chainSkips, settled, arrivedAhead, droppedRepeat,
                 droppedTrigger, userLog, flushAwaiting>>
  /\ UNCHANGED segmenterVars
  /\ UNCHANGED hookVars

\* if (!pendingInterim && !hasPendingRefinement) clearTranscript(): the two
\* values are those of the render that created the handler.
AfterClearTranscript(text, clears) == IF clears THEN <<>> ELSE text

\* window.electronAPI.pasteToActiveWindow returns to call f.
PasteDone(f) ==
  /\ TaskMayStart
  /\ flushStage[f] = "pasting"
  /\ \E success \in BOOLEAN, clears \in BOOLEAN :
       IF success
       THEN /\ updateQueue' = Append(updateQueue, ReplaceUpdate(<<>>))
            /\ refinedTextRef' = <<>>
            /\ sentenceBuffer' = <<>>
            /\ transcript' = AfterClearTranscript(transcript, clears)
            /\ interimTranscript' = AfterClearTranscript(interimTranscript, clears)
       ELSE UNCHANGED <<updateQueue, refinedTextRef, sentenceBuffer, transcript,
                        interimTranscript>>
  /\ flushStage' = [flushStage EXCEPT ![f] = "idle"]
  /\ flushText' = [flushText EXCEPT ![f] = <<>>]
  /\ UNCHANGED <<now, isMounted, sequenceId, nextToDisplay, completedResults,
                 sequenceTimestamps, processedTranscripts, isDisplaying,
                 displayRetryCount, refinedText, inflight, microtasks, dispatchLog,
                 displayLog, skipLog, chainSkips, settled, arrivedAhead, droppedRepeat,
                 droppedTrigger, userLog, finalEnding, flushAwaiting, bufferText, pendingSentences,
                 emitLog>>

\* One of the running calls takes its next step.
TimerFires == \E f \in Flows : FlushTimer(f)
FinalReturns == \E f \in Flows : FinalRefined(f)
PasteReturns == \E f \in Flows : PasteDone(f)
  /\ UNCHANGED <<connectionVars, messageLog, finalCalls>>

\* ------------------------------------------------------- the desk scenario
\* The stuck-call scenario with a user at the keyboard.  All sentences but
\* possibly the last are dispatched at once; the call of id 0 never returns
\* and the others return in id order, while text without a delimiter is
\* buffered, the user edits the text and presses Enter.
DeskSubmit ==
  /\ sequenceId < DeskSeq
  /\ ProcessSentence(PoolSentence(sequenceId))
  /\ UNCHANGED segmenterVars
  /\ UNCHANGED handlerVars
  /\ UNCHANGED hookVars

BurstIsOut == sequenceId >= DeskSeq - 1

DeskIngest ==
  /\ BurstIsOut
  /\ TaskMayStart
  /\ userLog = <<>>
  /\ sentenceBuffer = <<>>
  /\ HandleFinalTranscript(<<"c">>)
  /\ UNCHANGED handlerVars
  /\ UNCHANGED hookVars

DeskSettle ==
  /\ BurstIsOut
  /\ \E call \in inflight :
       /\ call.seq >= 1
       /\ \A other \in inflight : other.seq >= 1 => call.seq <= other.seq
       /\ Resolve(call, [thrown |-> FALSE, success |-> TRUE,
                         text |-> Polished(call.sentence)])

\* The clock is advanced while only the call of id 0 is out.
DeskTick ==
  /\ sequenceId = DeskSeq - 1
  /\ \A call \in inflight : call.seq = 0
  /\ Tick

\* The values the user leaves in the textarea: nothing, or a letter before
\* the text the buffer holds, rendered or not yet.
EditInputs == {<<>>, <<"e">> \o sentenceBuffer}

\* The user acts once React has applied the text updates queued so far, and
\* presses Enter again while at most one earlier call is still running.
UpdatesApplied == updateQueue = <<>>
EarlierCallsEnded == \A f \in 1 .. (Len(flushStage) - 1) : flushStage[f] = "idle"

\* Every call but the one that never returns has returned.
BurstSettled == \A call \in inflight : call.seq = 0

DeskEdit ==
  /\ BurstIsOut
  /\ BurstSettled
  /\ UpdatesApplied
  /\ Len(userLog) < MaxUserActions
  /\ \E newValue \in EditInputs : EditText(newValue)

DeskEnter ==
  /\ BurstIsOut
  /\ BurstSettled
  /\ UpdatesApplied
  /\ EarlierCallsEnded
  /\ Len(userLog) < MaxUserActions
  /\ PressEnter

DeskNext ==
  \/ DeskSubmit \/ DeskIngest \/ DeskSettle \/ DeskTick \/ DeskEdit \/ DeskEnter
  \/ ContinueFlush \/ TimerFires \/ FinalReturns \/ PasteReturns
  \/ RunUpdate \/ RunReplace \/ RunMicrotask
  \/ Render \/ Unmount

DeskSpec == Init /\ [][DeskNext]_vars

\* ---------------------------------------------------- the backlog scenario
\* More sentences than the result map may hold, all but possibly the last
\* dispatched at once; the call of one early id never returns and the others
\* return refined text in id order, so results pile up ahead of the cursor.
\* The clock is advanced while only calls that never return are out.
BacklogStuck == {2}

BacklogSubmit ==
  /\ sequenceId < BacklogSeq
  /\ ProcessSentence(PoolSentence(sequenceId))
  /\ UNCHANGED segmenterVars
  /\ UNCHANGED handlerVars
  /\ UNCHANGED hookVars

BacklogSettle ==
  \E call \in inflight :
    /\ sequenceId >= BacklogSeq - 1
    /\ call.seq \notin BacklogStuck
    /\ \A other \in inflight : other.seq \notin BacklogStuck => call.seq <= other.seq
    /\ Resolve(call, [thrown |-> FALSE, success |-> TRUE, text |-> Polished(call.sentence)])

BacklogTick ==
  /\ sequenceId >= BacklogSeq - 1
  /\ \A call \in inflight : call.seq \in BacklogStuck
  /\ Tick

BacklogNext == BacklogSubmit \/ BacklogSettle \/ RunUpdate \/ RunMicrotask \/ BacklogTick \/ Unmount

BacklogSpec == Init /\ [][BacklogNext]_vars

\* ------------------------------------------------ the lost-record scenario
\* The first MissStuck refinement calls never return; after them the
\* speaker pauses, then goes on, so that the dispatches after the pause sweep
\* the timestamps of the stuck ids.  The later calls return in order.
MissingSubmit ==
  /\ sequenceId < MissSeq
  /\ ProcessSentence(PoolSentence(sequenceId))
  /\ UNCHANGED segmenterVars
  /\ UNCHANGED handlerVars
  /\ UNCHANGED hookVars

MissingSettle ==
  \E call \in inflight :
    /\ call.seq >= MissStuck
    /\ \A other \in inflight : other.seq >= MissStuck => call.seq <= other.seq
    /\ Resolve(call, [thrown |-> FALSE, success |-> TRUE, text |-> Polished(call.sentence)])

MissingTick == sequenceId = MissStuck /\ Tick

MissingNext == MissingSubmit \/ MissingSettle \/ RunUpdate \/ RunMicrotask \/ MissingTick \/ Unmount

MissingSpec == Init /\ [][MissingNext]_vars

\* onFinalTranscriptRef.current?.(result.transcript): the hook hands a final
\* transcript to handleFinalTranscript.
OnFinalTranscript(text) ==
  /\ finalCalls' = Append(finalCalls, text)
  /\ HandleFinalTranscript(text)

\* ================================================================ useDeepgram
\* ------------------------------------------------------------------ connect
\* The two key checks at the head of connect: the error set, or "".
KeyErrorUntrimmed(key) ==
  IF key = <<>> \/ Len(Trim(key)) = 0 THEN "KeyInvalid"
  ELSE IF Len(key) < MIN_API_KEY_LENGTH THEN "KeyMalformed"
  ELSE ""
KeyError(key) ==
  IF key = <<>> \/ Len(Trim(key)) = 0 THEN "KeyInvalid"
  ELSE IF Len(Trim(key)) < MIN_API_KEY_LENGTH THEN "KeyMalformed"
  ELSE ""

\* The characters of an RFC 7230 token, which a WebSocket subprotocol must be.
TokenChars ==
  {"a", "b", "c", "d", "e", "f", "g", "h", "i", "j", "k", "l", "m", "n", "o",
   "p", "q", "r", "s", "t", "u", "v", "w", "x", "y", "z", "A", "B", "C", "D",
   "E", "F", "G", "H", "I", "J", "K", "L", "M", "N", "O", "P", "Q", "R", "S",
   "T", "U", "V", "W", "X", "Y", "Z", "0", "1", "2", "3", "4", "5", "6", "7",
   "8", "9", "!", "#", "$", "%", "&", "'", "*", "+", "-", ".", "^", "_", "U+0060",
   "|", "~"}

\* Whether ['token', apiKey] is a list of distinct protocol tokens.
IsProtocolToken(key) ==
  /\ key # <<>>
  /\ \A i \in 1 .. Len(key) : key[i] \in TokenChars
  /\ key # <<"t", "o", "k", "e", "n">>

\* new WebSocket(url, ['token', apiKey]) throws a SyntaxError for a key that
\* is not a protocol token; the WebSocket double of the tests accepts any key.
MayThrow(key) == IF IsProtocolToken(key) THEN {FALSE} ELSE BOOLEAN

\* Whether connect goes on to create a socket after its checks.
ConnectsAnyway(all, ref) == TRUE
ConnectsOnce(all, ref) == all = <<>>
Connects(all, ref) == ~RefIsLive(all, ref)

Connect(key) ==
  /\ connectLog' = Append(connectLog, key)
  /\ IF KeyError(key) # ""
     THEN /\ hookError' = KeyError(key)
          /\ UNCHANGED <<sockets, socketRef, hasErrorOccurred>>
     ELSE IF ~Connects(sockets, socketRef)
     THEN UNCHANGED <<hookError, sockets, socketRef, hasErrorOccurred>>
     ELSE \E throws \in MayThrow(key) :
            IF throws
            THEN /\ hookError' = "ConstructorError"
                 /\ socketRef' = 0
                 /\ UNCHANGED <<sockets, hasErrorOccurred>>
            ELSE /\ sockets' = Append(sockets, NewSocket)
                 /\ socketRef' = Len(sockets) + 1
                 /\ hasErrorOccurred' = FALSE
                 /\ UNCHANGED hookError
  /\ UNCHANGED <<isConnected, keepAliveRef, intervals, keepAliveSent, transcript,
                 interimTranscript, messageLog, finalCalls>>
  /\ UNCHANGED <<pipelineVars, segmenterVars, handlerVars>>

\* ------------------------------------------------------------ socket.onopen
SocketOpens(i) ==
  /\ sockets[i].readyState = "CONNECTING"
  /\ sockets' = [sockets EXCEPT ![i].readyState = "OPEN"]
  /\ isConnected' = TRUE
  /\ hookError' = ""
  /\ intervals' = ClearTimerOf(intervals, keepAliveRef) \cup {i}
  /\ keepAliveRef' = i
  /\ UNCHANGED <<socketRef, hasErrorOccurred, keepAliveSent, connectLog, transcript,
                 interimTranscript, messageLog, finalCalls>>
  /\ UNCHANGED <<pipelineVars, segmenterVars, handlerVars>>

\* The callback of the setInterval timer set by the onopen of socket i.
KeepAliveTick(i) ==
  /\ i \in intervals
  /\ keepAliveSent' = IF sockets[i].readyState = "OPEN" THEN Append(keepAliveSent, i)
                       ELSE keepAliveSent
  /\ UNCHANGED <<sockets, socketRef, isConnected, hookError, hasErrorOccurred,
                 keepAliveRef, intervals, connectLog, transcript, interimTranscript,
                 messageLog, finalCalls>>
  /\ UNCHANGED <<pipelineVars, segmenterVars, handlerVars>>

\* ----------------------------------------------------------- socket.onclose
\* The close event of socket i is delivered; its readyState is CLOSED by then.
SocketCloses(i) ==
  /\ ~sockets[i].closed
  /\ sockets' = [sockets EXCEPT ![i].readyState = "CLOSED", ![i].closed = TRUE]
  /\ IF keepAliveRef = i
     THEN intervals' = intervals \ {i} /\ keepAliveRef' = 0
     ELSE UNCHANGED <<intervals, keepAliveRef>>
  /\ IF socketRef = i /\ ~hasErrorOccurred
     THEN isConnected' = FALSE /\ socketRef' = 0
     ELSE UNCHANGED <<isConnected, socketRef>>
  /\ hasErrorOccurred' = FALSE
  /\ UNCHANGED <<hookError, keepAliveSent, connectLog, transcript, interimTranscript,
                 messageLog, finalCalls>>
  /\ UNCHANGED <<pipelineVars, segmenterVars, handlerVars>>

\* ----------------------------------------------------------- socket.onerror
\* The error event of socket i is delivered.  A browser has set readyState
\* to CLOSED by then; a test double may deliver it with readyState as it was.
SocketError(i) ==
  /\ ~sockets[i].closed /\ ~sockets[i].errored
  /\ \E state \in {sockets[i].readyState, "CLOSED"} :
       sockets' = [sockets EXCEPT
                     ![i] = AfterClose([sockets[i] EXCEPT !.readyState = state,
                                                          !.errored = TRUE])]
  /\ hasErrorOccurred' = TRUE
  /\ hookError' = "ConnectionError"
  /\ IF keepAliveRef = i
     THEN intervals' = intervals \ {i} /\ keepAliveRef' = 0
     ELSE UNCHANGED <<intervals, keepAliveRef>>
  /\ IF socketRef = i
     THEN isConnected' = FALSE /\ socketRef' = 0
     ELSE UNCHANGED <<isConnected, socketRef>>
  /\ UNCHANGED <<keepAliveSent, connectLog, transcript, interimTranscript, messageLog,
                 finalCalls>>
  /\ UNCHANGED <<pipelineVars, segmenterVars, handlerVars>>

\* ---------------------------------------------------------- clearTranscript
ClearTranscript ==
  /\ transcript' = <<>>
  /\ interimTranscript' = <<>>
  /\ UNCHANGED <<connectionVars, messageLog, finalCalls>>
  /\ UNCHANGED <<pipelineVars, segmenterVars, handlerVars>>

\* --------------------------------------------------------- socket.onmessage
\* A message of the recognizer: text that is not JSON, a Metadata message,
\* or a result with its is_final flag and the transcript of its first
\* alternative, if channel.alternatives[0] is there.
Unparseable == [kind |-> "unparseable"]
Metadata == [kind |-> "metadata"]
Result(final, text) ==
  [kind |-> "result", is_final |-> final, alternative |-> TRUE, transcript |-> text]
ResultWithoutAlternative(final) ==
  [kind |-> "result", is_final |-> final, alternative |-> FALSE, transcript |-> <<>>]

\* if (result && result.transcript)
HasTranscript(msg) ==
  msg.kind = "result" /\ msg.alternative /\ msg.transcript # <<>>

\* Whether onmessage calls onFinalTranscript for the message.
DeliversInterimToo(msg) == HasTranscript(msg)
Delivers(msg) == HasTranscript(msg) /\ msg.is_final

\* setTranscript((prev) => prev + (prev ? ' ' : '') + result.transcript)
TranscriptAfter(prev, text) == prev \o (IF prev # <<>> THEN <<" ">> ELSE <<>>) \o text

Receive(i, msg) ==
  /\ TaskMayStart
  /\ sockets[i].readyState = "OPEN"
  /\ messageLog' = Append(messageLog, msg)
  /\ IF Delivers(msg)
     THEN /\ transcript' = TranscriptAfter(transcript, msg.transcript)
          /\ interimTranscript' = <<>>
          /\ OnFinalTranscript(msg.transcript)
     ELSE /\ IF HasTranscript(msg)
             THEN interimTranscript' = msg.transcript
             ELSE UNCHANGED interimTranscript
          /\ UNCHANGED <<transcript, finalCalls, pipelineVars, segmenterVars>>
  /\ UNCHANGED connectionVars
  /\ UNCHANGED handlerVars

\* --------------------------------------------------- the connection scenario
\* The user connects with good and bad keys and disconnects; sockets open,
\* fail and close; keepalive timers tick.
ValidKey == [i \in 1 .. MIN_API_KEY_LENGTH |-> "k"]
ShortKey == [i \in 1 .. MIN_API_KEY_LENGTH - 1 |-> "k"]
PaddedKey == <<" ">> \o ValidKey
BlankKey == [i \in 1 .. MIN_API_KEY_LENGTH |-> " "]
PaddedShortKey == <<" ">> \o ShortKey
CommaKey == ShortKey \o <<",">>
ConnectKeys == {ValidKey, ShortKey, PaddedKey, PaddedShortKey, CommaKey, BlankKey, <<>>}

SocketConnect ==
  /\ Len(connectLog) < MaxConnects
  /\ Len(sockets) < MaxSockets
  /\ \E key \in ConnectKeys : Connect(key)

SocketEvent == \E i \in 1 .. Len(sockets) : SocketOpens(i) \/ SocketCloses(i) \/ SocketError(i)

SocketTimer ==
  /\ Len(keepAliveSent) < MaxKeepAlives
  /\ \E i \in 1 .. Len(sockets) : KeepAliveTick(i)

SocketNext == SocketConnect \/ SocketEvent \/ SocketTimer \/ Disconnect \/ Unmount

SocketSpec == Init /\ [][SocketNext]_vars

\* --------------------------------------------------- the recognizer scenario
\* One connection receives interim and final results, Metadata and text that
\* is not JSON; the sentences of the finals are refined and shown.
TwoSentences == <<"a", Kuten, "b", Kuten>>
RecognizerMessages ==
  {Unparseable, Metadata, ResultWithoutAlternative(TRUE), Result(TRUE, <<>>),
   Result(TRUE, <<" ">>), Result(TRUE, <<"c">>), Result(TRUE, TwoSentences),
   Result(FALSE, <<"c">>), Result(FALSE, TwoSentences)}

HookConnect ==
  /\ sockets = <<>>
  /\ Connect(ValidKey)

HookReceive ==
  /\ Len(messageLog) < HookMessages
  /\ \E i \in 1 .. Len(sockets) : \E msg \in RecognizerMessages : Receive(i, msg)

HookSocketEvent == \E i \in 1 .. Len(sockets) : SocketOpens(i) \/ SocketCloses(i)

HookSettle ==
  \E call \in inflight :
    Resolve(call, [thrown |-> FALSE, success |-> TRUE, text |-> Polished(call.sentence)])

HookNext ==
  \/ HookConnect
  \/ HookSocketEvent
  \/ HookReceive
  \/ Disconnect
  \/ ClearTranscript
  \/ ContinueTranscript
  \/ HookSettle
  \/ RunUpdate
  \/ RunMicrotask
  \/ Render
  \/ Unmount

HookSpec == Init /\ [][HookNext]_vars

\* ------------------------------------------------- the carry-over scenario
\* Characters are named by code point.
Greeting == <<"U+3053", "U+3093", "U+306B", "U+3061", "U+306F", Kuten>>
Genki == <<"U+5143", "U+6C17", "U+3067", "U+3059">>
KaQuestion == <<"U+304B", FullQuestion>>

\* Two sentences with a blank span between two delimiters.
GapFragment == <<"a", FullQuestion, " ", Kuten, "b", FullExclamation>>

\* The ASCII period, question mark and exclamation mark, which the pattern
\* of the split does not name.
AsciiMarks == {".", "?", "!"}

\* Two spans of text that end in ASCII marks.
AsciiFragment == <<"b", ".", " ", "a", "?", "!">>

\* The final transcripts of the scenario: a sentence, text without a
\* delimiter, its ending, two sentences around a blank span, text with
\* ASCII marks, text that begins with an ideographic space, a blank one,
\* the empty one.
CarryFragments ==
  {Greeting, Genki, KaQuestion, GapFragment, AsciiFragment, <<IdeographicSpace, "a">>,
   <<" ">>, <<>>}

CarryIngest ==
  /\ Len(finalCalls) < MaxFragments
  /\ TaskMayStart
  /\ \E text \in CarryFragments : OnFinalTranscript(text)
  /\ UNCHANGED handlerVars
  /\ UNCHANGED <<connectionVars, transcript, interimTranscript, messageLog>>

CarrySettle ==
  \E call \in inflight :
    Resolve(call, [thrown |-> FALSE, success |-> TRUE, text |-> Polished(call.sentence)])

CarryNext ==
  \/ CarryIngest \/ ContinueTranscript \/ CarrySettle \/ RunUpdate \/ RunMicrotask
  \/ Render \/ Unmount

CarrySpec == Init /\ [][CarryNext]_vars

\* ---------------------------------------------------- the commit scenario
\* Text without a delimiter is buffered, the user pastes two lines into the
\* textarea and presses Enter; refinement calls return refined text, fail,
\* or never return.
FlushIngest ==
  /\ Len(finalCalls) < FlushFragments
  /\ sentenceBuffer = <<>>
  /\ TaskMayStart
  /\ OnFinalTranscript(<<"c">>)
  /\ UNCHANGED handlerVars
  /\ UNCHANGED <<connectionVars, transcript, interimTranscript, messageLog>>

FlushSettle ==
  \E call \in inflight :
    \E resp \in {[thrown |-> TRUE, success |-> FALSE, text |-> <<>>],
                 [thrown |-> FALSE, success |-> TRUE, text |-> Polished(call.sentence)]} :
      Resolve(call, resp)

TwoLines == <<"a", NL, "b">>

FlushEdit == UpdatesApplied /\ Len(userLog) < FlushActions /\ EditText(TwoLines)

FlushEnter ==
  /\ UpdatesApplied
  /\ EarlierCallsEnded
  /\ Len(userLog) < FlushActions
  /\ PressEnter

FlushNext ==
  \/ FlushIngest \/ FlushSettle \/ FlushEdit \/ FlushEnter
  \/ ContinueFlush \/ TimerFires \/ FinalReturns \/ PasteReturns
  \/ RunUpdate \/ RunReplace \/ RunMicrotask
  \/ Render \/ Unmount

FlushSpec == Init /\ [][FlushNext]_vars

\* ----------------------------------------------- the stuck-commit scenario
\* A sentence and text without a delimiter are fed and the user presses
\* Enter; only the refinement call of id 0 ever returns.  The timer of the
\* flush fires, the final refinement call returns, React applies queued
\* updates and the event loop runs queued callbacks.
StuckIngest ==
  /\ Len(finalCalls) < StuckFragments
  /\ TaskMayStart
  /\ \E text \in {<<"a", Kuten>>, <<"c">>} : OnFinalTranscript(text)
  /\ UNCHANGED handlerVars
  /\ UNCHANGED <<connectionVars, transcript, interimTranscript, messageLog>>

StuckSettle ==
  \E call \in inflight :
    /\ call.seq = 0
    /\ Resolve(call, [thrown |-> FALSE, success |-> TRUE, text |-> Polished(call.sentence)])

StuckEnter == Len(userLog) < StuckEnters /\ PressEnter

StuckNext ==
  \/ StuckIngest \/ StuckSettle \/ StuckEnter
  \/ ContinueFlush \/ TimerFires \/ FinalReturns \/ PasteReturns
  \/ RunUpdate \/ RunReplace \/ RunMicrotask
  \/ Render \/ Unmount

FlushLiveSpec ==
  /\ Init /\ [][StuckNext]_vars
  /\ WF_vars(ContinueFlush) /\ WF_vars(TimerFires) /\ WF_vars(FinalReturns)
  /\ WF_vars(RunUpdate) /\ WF_vars(RunReplace) /\ WF_vars(RunMicrotask)

\* ================================================================ properties
\* Helpers that read the logs.
Range(seq) == {seq[i] : i \in 1 .. Len(seq)}
Increasing(seq) == \A i, j \in 1 .. Len(seq) : i < j => seq[i] < seq[j]
SentenceOf(id) == (CHOOSE e \in Range(dispatchLog) : e.seq = id).sentence
DispatchTimeOf(id) == (CHOOSE e \in Range(dispatchLog) : e.seq = id).time
Dispatched == {e.seq : e \in Range(dispatchLog)}

\* The text a settled call is expected to contribute to the display.
ContributionOf(id) ==
  IF settled[id] = "failed" THEN StripNewlines(SentenceOf(id))
  ELSE StripNewlines(Polished(SentenceOf(id)))

RECURSIVE Contributions(_)
Contributions(ids) ==
  IF ids = <<>> THEN <<>> ELSE ContributionOf(Head(ids)) \o Contributions(Tail(ids))

\* No drain pass is queued, running or waiting to clear its flag.
Quiescent == updateQueue = <<>> /\ microtasks = <<>> /\ ~isDisplaying

\* C1: whatever the order in which refinement calls complete, the results
\* appended to the displayed text appear in strictly increasing id order, and
\* the text is their concatenation in that order.
C1_DisplayOrder ==
  /\ Increasing(displayLog)
  /\ refinedText = Contributions(displayLog)

C1_Witness ==
  /\ arrivedAhead
  /\ Len(displayLog) >= 2
  /\ displayLog[1] = 0 /\ displayLog[2] = 1

NothingLost ==
  /\ skipLog = <<>>
  /\ \A id \in DOMAIN settled : id \in Range(displayLog) \/ Has(completedResults, id)

AllResolved == sequenceId > 0 /\ inflight = {} /\ NothingLost

AllDisplayed == Range(displayLog) = Dispatched /\ Len(displayLog) = sequenceId

\* C2: once every dispatched call has resolved, with nothing skipped or
\* evicted, every dispatched sentence comes to be displayed, exactly once,
\* with no further dispatch, unless the component is unmounted first: every
\* stored result is observed by a pass.
C2_EveryResultDisplayedOnce ==
  /\ [](\A i, j \in 1 .. Len(displayLog) : i # j => displayLog[i] # displayLog[j])
  /\ [](AllResolved /\ Quiescent => AllDisplayed)
  /\ ((AllResolved /\ isMounted) ~> (AllDisplayed \/ ~AllResolved \/ ~isMounted))

\* Both calls resolved, the second while the pass triggered by the first was
\* in progress, one of them with a failure; both results are displayed.
C2_Witness ==
  /\ AllResolved /\ AllDisplayed /\ Quiescent
  /\ sequenceId >= 2
  /\ droppedTrigger = "observed"
  /\ \E id \in DOMAIN settled : settled[id] = "failed"

FlagCleared == isDisplaying /\ microtasks # <<>> /\ microtasks' = Tail(microtasks)

\* C3 as claimed: a trigger that arrives while a pass is in progress is
\* recorded, and when the in-progress flag is cleared the drain is invoked
\* once more.
C3_DroppedTriggerIsReinvoked ==
  [][(FlagCleared /\ droppedTrigger # "none") => (isDisplaying' /\ updateQueue' # <<>>)]_vars

PassPending == \E i \in 1 .. Len(updateQueue) : updateQueue[i].kind = "drain"

\* C3 as amended: a trigger that arrives while a pass is in progress is
\* dropped, nothing is recorded and nothing is invoked when the flag is
\* cleared; the updater of the pass in progress has not run yet, so it
\* observes the result stored before the dropped trigger, and the flag is
\* never left set without a pass or a callback pending.
C3_DroppedTriggerObservedByPendingPass ==
  /\ droppedTrigger = "waiting" => PassPending
  /\ isDisplaying => (PassPending \/ microtasks # <<>>)
  /\ (isDisplaying /\ microtasks # <<>>) => ~PassPending

\* A trigger was dropped, the pass in progress displayed the result stored
\* before it, and the flag was cleared with no pass invoked.
C3_Witness ==
  /\ droppedTrigger = "observed"
  /\ Quiescent
  /\ Len(displayLog) >= 2
  /\ ~Has(completedResults, nextToDisplay)

\* C5: for every refinement failure, the result stored for the sentence's id
\* is the original sentence text, and it is not empty.
C5_FallbackIsOriginal ==
  \A id \in DOMAIN completedResults :
    (id \in DOMAIN settled /\ settled[id] = "failed")
      => /\ completedResults[id] = SentenceOf(id)
         /\ completedResults[id] # <<>>

\* C8: ids come from one counter starting at 0: the k-th dispatched sentence
\* has id k-1, and blank and duplicate sentences consume no id.
C8_IdsAreDispatchPositions ==
  /\ sequenceId = Len(dispatchLog)
  /\ \A i \in 1 .. Len(dispatchLog) :
       /\ dispatchLog[i].seq = i - 1
       /\ Trim(dispatchLog[i].sentence) # <<>>
  /\ \A call \in inflight : call.seq < sequenceId /\ call.sentence = SentenceOf(call.seq)

C8_Witness == Len(dispatchLog) >= 3 /\ dispatchLog[3].seq = 2

\* C6: with id 0 dispatched and never resolved and ids 1-6 dispatched and all
\* resolved, once SEQUENCE_TIMEOUT_MS has passed the display holds results
\* 1-6 in order with 0 skipped; at rest the pipeline is not behind id 0.
C6_TimeoutSkipDisplaysRest ==
  ( /\ sequenceId = 7
    /\ ~Has(settled, 0)
    /\ \A id \in 1 .. 6 : Has(settled, id)
    /\ now - DispatchTimeOf(0) > SEQUENCE_TIMEOUT_MS
    /\ Quiescent )
    => /\ displayLog = <<1, 2, 3, 4, 5, 6>>
       /\ skipLog = <<0>>

CursorAdvance ==
  LET shown   == Range(displayLog') \ Range(displayLog)
      skipped == Range(skipLog') \ Range(skipLog)
  IN /\ nextToDisplay' >= nextToDisplay
     /\ shown \cap skipped = {}
     /\ shown \cup skipped = nextToDisplay .. (nextToDisplay' - 1)
     /\ Len(displayLog') = Len(displayLog) + Cardinality(shown)
     /\ Len(skipLog') = Len(skipLog) + Cardinality(skipped)
     /\ SubSeq(displayLog', 1, Len(displayLog)) = displayLog
     /\ SubSeq(skipLog', 1, Len(skipLog)) = skipLog

\* C10: the cursor starts at 0 and every step moves it by exactly the ids it
\* drains into the display or skips, one each, in id order; it never moves
\* back and nothing else moves it.
C10_CursorMovesOnlyByDrainOrSkip ==
  /\ (Len(displayLog) + Len(skipLog) = 0 => nextToDisplay = 0)
  /\ [][CursorAdvance]_vars

\* The user edited the text and pressed Enter, which dispatched the buffered
\* text; id 0 was skipped and the ids after it were displayed.
C10_Witness ==
  /\ skipLog = <<0>>
  /\ Len(displayLog) >= 2
  /\ nextToDisplay = Len(displayLog) + 1
  /\ "edit" \in Range(userLog) /\ "enter" \in Range(userLog)
  /\ \E e \in Range(dispatchLog) : e.sentence = <<"c">>
  /\ \A f \in Flows : flushStage[f] = "idle"

UpdaterRuns == updateQueue # <<>> /\ updateQueue' = Tail(updateQueue)

\* The id at which the sequential drain of the pass about to run stalls.
StallPoint ==
  CHOOSE k \in nextToDisplay .. sequenceId :
    /\ ~Has(completedResults, k)
    /\ \A j \in nextToDisplay .. (k - 1) : Has(completedResults, j)

TimedOutAt(k, t) ==
  /\ sequenceId - k > MAX_SEQUENCE_GAP
  /\ Has(sequenceTimestamps, k)
  /\ t - sequenceTimestamps[k] > SEQUENCE_TIMEOUT_MS

SkipsStuckIdOnce ==
  (UpdaterRuns /\ TimedOutAt(StallPoint, Head(updateQueue).now))
    => /\ skipLog' = Append(skipLog, StallPoint)
       /\ nextToDisplay' = StallPoint + 1
       /\ ~Has(sequenceTimestamps', StallPoint)

NoSecondSkip ==
  /\ Len(skipLog') <= Len(skipLog) + 1
  /\ \A i, j \in 1 .. Len(skipLog') : i # j => skipLog'[i] # skipLog'[j]
  /\ Range(skipLog') \cap Range(displayLog') = {}
  /\ displayRetryCount' < MAX_DISPLAY_RETRIES

\* C7: when the id at the cursor has no result, its dispatch timestamp is
\* older than the timeout and the gap exceeds the threshold, the drain pass
\* advances the cursor past that id, by exactly one, and skips no id twice;
\* the retry counter stays below MAX_DISPLAY_RETRIES.
C7_BoundedSkip == [][SkipsStuckIdOnce /\ NoSecondSkip]_vars

\* Ten ids were skipped in a row, the chain stopped, and the next id is stuck too.
C7_Witness ==
  /\ Len(skipLog) = MAX_DISPLAY_RETRIES
  /\ displayLog = <<>>
  /\ Quiescent
  /\ displayRetryCount = 0
  /\ nextToDisplay = MAX_DISPLAY_RETRIES
  /\ TimedOutAt(nextToDisplay, now)

\* C9: ids are allocated in the order the segmenter emits the sentences:
\* of two emitted sentences that were both dispatched, the earlier one has
\* the smaller id, within one fragment and across fragments.
C9_IdsFollowEmissionOrder ==
  \A i, j \in 1 .. Len(emitLog) :
    (i < j /\ emitLog[i].seq # -1 /\ emitLog[j].seq # -1)
      => emitLog[i].seq < emitLog[j].seq

\* A sentence got id 0, its repeat in the next fragment got none, and the
\* two sentences of a third fragment got ids 1 and 2 in emission order.
C9_Witness ==
  /\ Len(emitLog) >= 4
  /\ emitLog[1].seq = 0
  /\ emitLog[2].sentence = emitLog[1].sentence /\ emitLog[2].seq = -1
  /\ emitLog[3].sentence = <<"a", FullQuestion>> /\ emitLog[3].seq = 1
  /\ emitLog[4].sentence = <<"b", FullExclamation>> /\ emitLog[4].seq = 2
  /\ pendingSentences = <<>>

\* C4 as claimed: of identical texts submitted within the recency window
\* only the first is dispatched, so two dispatches of one text are always
\* more than CLEANUP_AGE_MS apart.
C4_RepeatInWindowNeverDispatched ==
  \A i, j \in 1 .. Len(dispatchLog) :
    (i < j /\ dispatchLog[i].sentence = dispatchLog[j].sentence)
      => dispatchLog[j].time - dispatchLog[i].time > CLEANUP_AGE_MS

\* C4 as amended: a repeat is dropped before an id is allocated while it is
\* within the recency window and fewer than MAX_PROCESSED / 2 sentences were
\* dispatched since the first; every id, timestamp and launched call belongs
\* to a dispatch.
C4_RepeatDroppedWhileRecorded ==
  /\ \A i, j \in 1 .. Len(dispatchLog) :
       (i < j /\ dispatchLog[i].sentence = dispatchLog[j].sentence)
         => \/ dispatchLog[j].time - dispatchLog[i].time > CLEANUP_AGE_MS
            \/ j - i > MAX_PROCESSED \div 2
  /\ sequenceId = Len(dispatchLog)
  /\ DOMAIN sequenceTimestamps \subseteq Dispatched
  /\ DOMAIN completedResults \subseteq Dispatched
  /\ {call.seq : call \in inflight} \cup DOMAIN settled = Dispatched

\* A repeat was dropped, and after the flood the same text was dispatched again.
C4_Witness ==
  /\ droppedRepeat
  /\ \E i, j \in 1 .. Len(dispatchLog) :
       /\ i < j
       /\ dispatchLog[i].sentence = dispatchLog[j].sentence
       /\ dispatchLog[j].time - dispatchLog[i].time <= CLEANUP_AGE_MS

\* ------------------------------------------------ removal of stored results
\* What one step removes from completedResultsRef.current.
RemovedResults == DOMAIN completedResults \ DOMAIN completedResults'

DrainUpdaterRuns == UpdaterRuns /\ Head(updateQueue).kind = "drain"

\* The id is appended to the display by this step.
ShownInStep(id) == id \in Range(displayLog') \ Range(displayLog)

\* The id is one the size cap of this updater run does not keep.
EvictedInStep(id) ==
  /\ id \notin Range(displayLog')
  /\ Cardinality(DOMAIN completedResults \ Range(displayLog')) > MAX_COMPLETED_RESULTS
  /\ \E kept \in SUBSET DOMAIN completedResults :
       /\ Cardinality(kept) = MAX_COMPLETED_RESULTS
       /\ DOMAIN completedResults' = kept
       /\ \A k \in kept : k > id

\* The step dispatches a sentence and the id's timestamp has passed the age limit.
SweptInStep(id) ==
  /\ sequenceId' = sequenceId + 1
  /\ Has(sequenceTimestamps, id)
  /\ now - sequenceTimestamps[id] > CLEANUP_AGE_MS

\* C11 as claimed: a stored result leaves the map only by being drained into
\* the display at the cursor or by the size-cap eviction inside the drain;
\* dispatching a new sentence removes none that has not been displayed.
C11_RemovedOnlyByDrainOrCap ==
  [][\A id \in RemovedResults :
       DrainUpdaterRuns /\ (ShownInStep(id) \/ EvictedInStep(id))]_vars

\* C11 as amended: a stored result leaves the map only by being drained at
\* the cursor, by the size-cap eviction inside the drain, or by the age sweep
\* of a dispatch, which removes the result of every id whose dispatch
\* timestamp is more than CLEANUP_AGE_MS old; nothing else removes one.
C11_RemovedOnlyByDrainCapOrAgeSweep ==
  [][\A id \in RemovedResults :
       \/ DrainUpdaterRuns /\ (ShownInStep(id) \/ EvictedInStep(id))
       \/ SweptInStep(id)]_vars

\* Some results were displayed, and a dispatch has swept away the stored
\* result and the timestamp of an id the cursor had not reached.
C11_Witness ==
  /\ displayLog # <<>>
  /\ \E id \in DOMAIN settled :
       /\ id >= nextToDisplay
       /\ ~Has(completedResults, id)
       /\ ~Has(sequenceTimestamps, id)

\* ------------------------------------------------------------ the size cap
\* The stored results the drain loop of this updater run leaves behind.
LeftByDrain == DOMAIN completedResults \ Range(displayLog')

\* C12: after every updater run of the drain the result map holds at most
\* MAX_COMPLETED_RESULTS entries, and when the run discards entries to
\* enforce the cap, exactly the MAX_COMPLETED_RESULTS highest ids are kept.
C12_CapKeepsHighestIds ==
  [][DrainUpdaterRuns =>
       /\ Cardinality(DOMAIN completedResults') <= MAX_COMPLETED_RESULTS
       /\ DOMAIN completedResults' \subseteq LeftByDrain
       /\ DOMAIN completedResults' # LeftByDrain =>
            /\ Cardinality(DOMAIN completedResults') = MAX_COMPLETED_RESULTS
            /\ \A k \in DOMAIN completedResults' :
                 \A j \in LeftByDrain \ DOMAIN completedResults' : k > j
       /\ \A k \in DOMAIN completedResults' : completedResults'[k] = completedResults[k]]_vars

\* The cap has discarded the lowest stored result, which the cursor had not
\* reached, and the map holds the highest MAX_COMPLETED_RESULTS.
C12_Witness ==
  /\ Cardinality(DOMAIN completedResults) = MAX_COMPLETED_RESULTS
  /\ Quiescent
  /\ \E id \in DOMAIN settled :
       /\ id >= nextToDisplay
       /\ ~Has(completedResults, id)
       /\ Has(sequenceTimestamps, id)
       /\ \A k \in DOMAIN completedResults : k > id

\* ------------------------------------------------------------ segmentation
\* All text handleFinalTranscript has appended to the buffer: it returns on a
\* blank transcript before appending.
RECURSIVE FedText(_)
FedText(calls) ==
  IF calls = <<>> THEN <<>>
  ELSE (IF Trim(Head(calls)) = <<>> THEN <<>> ELSE Head(calls)) \o FedText(Tail(calls))

DelimiterPositions(t) == {i \in 1 .. Len(t) : t[i] \in Delimiters}

\* The text between the delimiter at position q and the one before it.
SegmentBefore(t, q) ==
  LET before == {p \in DelimiterPositions(t) : p < q}
      from   == IF before = {} THEN 1
                ELSE (CHOOSE p \in before : \A r \in before : r <= p) + 1
  IN SubSeq(t, from, q - 1)

\* The sentences a text holds: each non-blank segment, trimmed, with the
\* delimiter that ends it, in order.
SentencesIn(t) ==
  LET ends   == {q \in DelimiterPositions(t) : Trim(SegmentBefore(t, q)) # <<>>}
      nth(k) == CHOOSE q \in ends : Cardinality({r \in ends : r < q}) = k - 1
  IN [k \in 1 .. Cardinality(ends) |-> Trim(SegmentBefore(t, nth(k))) \o <<t[nth(k)]>>]

\* The text after the last delimiter.
TextAfterLastDelimiter(t) ==
  LET d == DelimiterPositions(t)
  IN IF d = {} THEN t
     ELSE SubSeq(t, (CHOOSE p \in d : \A r \in d : r <= p) + 1, Len(t))

Emitted == [i \in 1 .. Len(emitLog) |-> emitLog[i].sentence]

\* C13: text after the last terminal mark stays in the buffer and is emitted
\* only once a later fragment brings a mark, as one sentence with the text
\* that precedes the mark; the fragments "konnichiwa.", "genkidesu", "ka?"
\* give exactly two sentences, none between the second and the third.
C13_CarryOver ==
  /\ sentenceBuffer = TextAfterLastDelimiter(FedText(finalCalls))
  /\ Emitted = SentencesIn(FedText(finalCalls))
  /\ finalCalls = <<Greeting>> => (Emitted = <<Greeting>> /\ sentenceBuffer = <<>>)
  /\ finalCalls = <<Greeting, Genki>> => (Emitted = <<Greeting>> /\ sentenceBuffer = Genki)
  /\ finalCalls = <<Greeting, Genki, KaQuestion>> =>
       (Emitted = <<Greeting, Genki \o KaQuestion>> /\ sentenceBuffer = <<>>)

\* The three fragments were fed in order and both sentences were dispatched.
C13_Witness ==
  /\ finalCalls = <<Greeting, Genki, KaQuestion>>
  /\ Emitted = <<Greeting, Genki \o KaQuestion>>
  /\ Len(dispatchLog) = 2
  /\ dispatchLog[2].sentence = Genki \o KaQuestion
  /\ pendingSentences = <<>>

\* A blank final transcript is handed to handleFinalTranscript in this step.
BlankFragmentFed ==
  /\ Len(finalCalls') = Len(finalCalls) + 1
  /\ Trim(finalCalls'[Len(finalCalls')]) = <<>>

\* The text of a sentence before the delimiter that ends it.
Body(sentence) == SubSeq(sentence, 1, Len(sentence) - 1)

\* C14: an empty or blank final fragment leaves the buffer unchanged and
\* emits nothing, and a blank span between two terminal marks is neither
\* emitted nor dispatched: no id is consumed for it.
C14_BlankInputChangesNothing ==
  /\ [][BlankFragmentFed =>
          /\ sentenceBuffer' = sentenceBuffer
          /\ emitLog' = emitLog
          /\ pendingSentences' = pendingSentences
          /\ sequenceId' = sequenceId
          /\ dispatchLog' = dispatchLog
          /\ inflight' = inflight]_vars
  /\ [](\A i \in 1 .. Len(emitLog) :
          /\ emitLog[i].sentence[Len(emitLog[i].sentence)] \in Delimiters
          /\ Trim(Body(emitLog[i].sentence)) # <<>>)
  /\ [](\A i \in 1 .. Len(dispatchLog) :
          /\ dispatchLog[i].sentence \in Range(Emitted)
          /\ Trim(Body(dispatchLog[i].sentence)) # <<>>)
  /\ [](sequenceId = Len(dispatchLog) /\ sequenceId <= Len(emitLog))

\* Text was buffered, a blank fragment left it there, and the fragment with
\* a blank span then gave two sentences and two ids.
C14_Witness ==
  /\ finalCalls = <<Genki, <<" ">>, GapFragment>>
  /\ Emitted = <<Genki \o <<"a", FullQuestion>>, <<"b", FullExclamation>>>>
  /\ sequenceId = 2
  /\ sentenceBuffer = <<>>
  /\ pendingSentences = <<>>

\* ------------------------------------------------------------- final flush
\* flushBufferAndRefine starts in this step with text in the buffer.
FlushStartsWithText ==
  /\ Len(userLog') = Len(userLog) + 1
  /\ userLog'[Len(userLog')] = "enter"
  /\ Trim(sentenceBuffer) # <<>>

\* The step dispatches the text as one sentence: the next id is allocated
\* for it and a refinement call is out for it.
DispatchedInStep(text) ==
  /\ sequenceId' = sequenceId + 1
  /\ dispatchLog' = Append(dispatchLog, [seq |-> sequenceId, sentence |-> text, time |-> now])
  /\ [seq |-> sequenceId, sentence |-> text] \in inflight'
  /\ Has(sequenceTimestamps', sequenceId)

\* The flush is suspended with the buffer as it was; when it resumes, which
\* is before any other task starts, it clears the buffer.
BufferClearedNext == flushAwaiting' # 0 /\ sentenceBuffer' = sentenceBuffer
FlushResumes == flushAwaiting # 0 /\ flushAwaiting' = 0

\* C15 as claimed: whenever the flush runs with non-blank text in the buffer,
\* that text is dispatched as one sentence, with an id and a refinement call
\* of its own, and the buffer is empty once the flush resumes after the
\* dispatch, with nothing written to it in between.
C15_FlushDispatchesTrailingText ==
  [][/\ FlushStartsWithText =>
          (DispatchedInStep(Trim(sentenceBuffer)) /\ BufferClearedNext)
     /\ FlushResumes => sentenceBuffer' = <<>>
     /\ (flushAwaiting # 0 /\ ~FlushResumes) => sentenceBuffer' = sentenceBuffer]_vars

\* C15 as amended: whenever the flush runs with non-blank text in the buffer,
\* the buffer is empty once the flush resumes and the text is dispatched as one sentence
\* unless the recent-sentence record holds the same text; then it is dropped
\* as a repeat and no id is allocated.
C15_FlushDispatchesUnlessRepeat ==
  [][/\ FlushStartsWithText =>
          /\ BufferClearedNext
          /\ IF ProcessedHas(processedTranscripts, Trim(sentenceBuffer))
             THEN sequenceId' = sequenceId /\ dispatchLog' = dispatchLog
                    /\ inflight' = inflight
             ELSE DispatchedInStep(Trim(sentenceBuffer))
     /\ FlushResumes => sentenceBuffer' = <<>>
     /\ (flushAwaiting # 0 /\ ~FlushResumes) => sentenceBuffer' = sentenceBuffer]_vars

\* Two flushes ran with the same trailing text: the first dispatched it, the
\* second dropped it as a repeat and cleared the buffer.
C15_Witness ==
  /\ finalCalls = <<<<"c">>, <<"c">>>>
  /\ Cardinality({i \in 1 .. Len(userLog) : userLog[i] = "enter"}) = 2
  /\ Len(dispatchLog) = 1
  /\ dispatchLog[1].sentence = <<"c">>
  /\ droppedRepeat
  /\ sentenceBuffer = <<>>

\* The steps of flush f after its first: the timer fires, and the final
\* refinement call returns.
TimerStep(f) == flushStage[f] = "flushed" /\ flushStage'[f] # "flushed"
FinalStep(f) == flushStage[f] = "refining" /\ flushStage'[f] # "refining"

\* C16: if the whole-text refinement call of a flush fails, the text handed
\* to the paste call is the text as it was before that call, and it is not
\* empty.
C16_FailedFinalKeepsText ==
  [][\A f \in Flows :
       (FinalStep(f) /\ finalEnding'[f] = "failed") =>
         /\ flushStage'[f] = "pasting"
         /\ flushText'[f] = flushText[f]
         /\ flushText'[f] # <<>>]_vars

\* The flush starts in this step with an empty buffer and no refinement call out.
IdleFlushStarts ==
  /\ Len(userLog') = Len(userLog) + 1
  /\ userLog'[Len(userLog')] = "enter"
  /\ sentenceBuffer = <<>>
  /\ inflight = {}

\* What a flush with nothing to dispatch has to leave alone.
FlushFrame ==
  UNCHANGED <<sequenceId, nextToDisplay, completedResults, sequenceTimestamps,
              inflight, dispatchLog, sentenceBuffer>>

\* C17: a flush with an empty buffer and no pending refinement allocates no
\* id and leaves the cursor and both maps alone; the text is unchanged up to
\* the final refinement, which is skipped for empty text, and is exactly
\* unchanged when that refinement fails.
C17_IdempotentFlush ==
  [][/\ IdleFlushStarts => (FlushFrame /\ refinedTextRef' = refinedTextRef)
     /\ \A f \in Flows :
          /\ TimerStep(f) => (FlushFrame /\ refinedTextRef' = refinedTextRef)
          /\ (TimerStep(f) /\ refinedTextRef = <<>>) => flushStage'[f] # "refining"
          /\ FinalStep(f) => FlushFrame
          /\ (FinalStep(f) /\ finalEnding'[f] = "failed")
               => refinedTextRef' = flushText[f]]_vars

\* Where the flush of the f-th Enter press stands, "none" before the press.
StageOf(f) == IF f \in Flows THEN flushStage[f] ELSE "none"

\* C18: every flush waits for its timer and for the whole-text refinement
\* call only: it ends, and hands the text it has to the paste call, even
\* when a refinement call of a dispatched sentence never returns.
C18_FlushEndsDespiteStuckCalls ==
  /\ \A f \in 1 .. StuckEnters :
       /\ (StageOf(f) = "flushed") ~> (StageOf(f) \in {"pasting", "idle"})
       /\ (StageOf(f) = "refining") ~> (StageOf(f) \in {"pasting", "idle"})
  /\ [][\A f \in Flows :
          ((TimerStep(f) /\ flushStage'[f] # "refining") \/ FinalStep(f)) =>
            (refinedTextRef' # <<>> =>
               flushStage'[f] = "pasting" /\ flushText'[f] = refinedTextRef')]_vars

\* The flush went through the whole-text refinement and reached the paste
\* call while the call of the sentence it dispatched was still out.
C18_Witness ==
  /\ Flows # {}
  /\ flushStage[1] = "pasting"
  /\ flushText[1] # <<>>
  /\ finalEnding[1] = "refined"
  /\ \E call \in inflight : call.sentence = <<"c">>

\* ------------------------------------------------------------- recognizer
\* The results that carry a final transcript.
IsFinalResult(msg) ==
  msg.kind = "result" /\ msg.is_final /\ msg.alternative /\ msg.transcript # <<>>

\* The results that carry an interim transcript.
IsInterimResult(msg) ==
  msg.kind = "result" /\ ~msg.is_final /\ msg.alternative /\ msg.transcript # <<>>

FinalTexts(log) ==
  LET finals == SelectSeq(log, IsFinalResult)
  IN [k \in 1 .. Len(finals) |-> finals[k].transcript]

\* onmessage handles a message that is not a final result.
NonFinalMessageStep ==
  /\ Len(messageLog') = Len(messageLog) + 1
  /\ ~IsFinalResult(messageLog'[Len(messageLog')])

\* onmessage handles a final result.
FinalMessageStep ==
  /\ Len(messageLog') = Len(messageLog) + 1
  /\ IsFinalResult(messageLog'[Len(messageLog')])

\* C19: handleFinalTranscript is called with the transcript of every final
\* result, once each and in arrival order, and with nothing else; the text it
\* was called with is what the segmenter has split.  A message that is not a
\* final result changes neither the buffer, the sequence counter nor any
\* queue of the pipeline: an interim result replaces the interim text, any
\* other such message changes nothing.
C19_OnlyFinalsReachSegmenter ==
  /\ [](/\ finalCalls = FinalTexts(messageLog)
        /\ sentenceBuffer = TextAfterLastDelimiter(FedText(finalCalls))
        /\ Emitted = SentencesIn(FedText(finalCalls)))
  /\ [][NonFinalMessageStep =>
          /\ UNCHANGED <<pipelineVars, segmenterVars, handlerVars>>
          /\ UNCHANGED <<connectionVars, transcript, finalCalls>>
          /\ interimTranscript' = IF IsInterimResult(messageLog'[Len(messageLog')])
                                  THEN messageLog'[Len(messageLog')].transcript
                                  ELSE interimTranscript]_vars
  /\ [][FinalMessageStep =>
          /\ finalCalls' = Append(finalCalls, messageLog'[Len(messageLog')].transcript)
          /\ interimTranscript' = <<>>]_vars

\* An interim result with a sentence in it arrived between two finals: only
\* the finals were segmented.
C19_Witness ==
  /\ Len(messageLog) = 3
  /\ messageLog[1] = Result(TRUE, <<"c">>)
  /\ messageLog[2] = Result(FALSE, TwoSentences)
  /\ messageLog[3] = Result(TRUE, TwoSentences)
  /\ finalCalls = <<(<<"c">>), TwoSentences>>
  /\ Emitted = <<(<<"c", "a", Kuten>>), (<<"b", Kuten>>)>>
  /\ pendingSentences = <<>>

\* ------------------------------------------------------------- connection
LiveSockets == {i \in 1 .. Len(sockets) : IsLive(sockets[i])}

\* connect is called while the current socket is OPEN or CONNECTING.
ConnectWhileLive ==
  /\ Len(connectLog') = Len(connectLog) + 1
  /\ RefIsLive(sockets, socketRef)

CalledWith == connectLog'[Len(connectLog')]

\* C20 as stated: never two sockets OPEN or CONNECTING, and a connect call
\* made while the current socket is OPEN or CONNECTING changes no state.
C20_ConnectWhileLiveChangesNothing ==
  /\ [](Cardinality(LiveSockets) <= 1)
  /\ [][ConnectWhileLive =>
          UNCHANGED <<sockets, socketRef, isConnected, hookError, hasErrorOccurred,
                      keepAliveRef, intervals, keepAliveSent, transcript,
                      interimTranscript>>]_vars

\* C20: after any sequence of connect, disconnect and socket events at most
\* one socket is OPEN or CONNECTING, and it is the current one.  A connect
\* call made while the current socket is OPEN or CONNECTING creates no
\* socket; with a key that passes the key checks it changes no state, with a
\* key that fails them it changes the error message and nothing else.
C20_AtMostOneLiveSocket ==
  /\ [](/\ Cardinality(LiveSockets) <= 1
        /\ LiveSockets \subseteq {socketRef})
  /\ [][ConnectWhileLive =>
          /\ UNCHANGED <<sockets, socketRef, isConnected, hasErrorOccurred,
                         keepAliveRef, intervals, keepAliveSent, transcript,
                         interimTranscript>>
          /\ hookError' = IF KeyError(CalledWith) = "" THEN hookError
                          ELSE KeyError(CalledWith)]_vars

\* A second connect with a good key was ignored while the first socket was
\* open and its keepalive timer running.
C20_Witness ==
  /\ connectLog = <<ValidKey, ValidKey>>
  /\ Len(sockets) = 1
  /\ sockets[1].readyState = "OPEN"
  /\ socketRef = 1
  /\ keepAliveSent # <<>>

\* -------------------------------------------------------------- keepalive
\* Socket i has received a close event or an error event, or disconnect has
\* closed it.
Ended(i) == sockets[i].closed \/ sockets[i].errored \/ sockets[i].disconnected

KeepAliveSentOn(i) == keepAliveSent' = Append(keepAliveSent, i)

\* C21: a KeepAlive message is sent only on a socket that has received no
\* close event and no error event and has not been disconnected; a keepalive
\* timer runs only for such a socket, and only for the current one.
C21_NoKeepAliveAfterEnd ==
  /\ [][\A i \in 1 .. Len(sockets) : KeepAliveSentOn(i) => ~Ended(i)]_vars
  /\ [](\A i \in intervals : ~Ended(i) /\ i = socketRef)

\* KeepAlive went out on the first socket, which was then disconnected, and
\* on the second socket, whose timer is the only one running.
C21_Witness ==
  /\ keepAliveSent = <<1, 2>>
  /\ Len(sockets) = 2
  /\ sockets[1].disconnected
  /\ intervals = {2}
  /\ socketRef = 2

\* ------------------------------------------------------------ reconnection
\* disconnect closes the current socket.
DisconnectStep ==
  \E i \in 1 .. Len(sockets) : sockets'[i].disconnected /\ ~sockets[i].disconnected

\* The error event of the current socket is delivered.
ErrorOnCurrentStep ==
  \E i \in 1 .. Len(sockets) : socketRef = i /\ sockets'[i].errored /\ ~sockets[i].errored

\* connect is called with a good key while there is no current socket.
ReconnectStep ==
  /\ Len(connectLog') = Len(connectLog) + 1
  /\ CalledWith = ValidKey
  /\ socketRef = 0

OpenStep(i) == sockets[i].readyState = "CONNECTING" /\ sockets'[i].readyState = "OPEN"

\* C22: a disconnect call, and an error event on the current socket, leave
\* isConnected false and no current socket; a connect with a valid key made
\* when there is no current socket creates a new socket and makes it the
\* current one; the open event of a socket sets isConnected and clears the
\* error.
C22_ReconnectionPossible ==
  /\ [][DisconnectStep \/ ErrorOnCurrentStep => ~isConnected' /\ socketRef' = 0]_vars
  /\ [][ReconnectStep =>
          /\ sockets' = Append(sockets, NewSocket)
          /\ socketRef' = Len(sockets')]_vars
  /\ [][\A i \in 1 .. Len(sockets) :
          OpenStep(i) => isConnected' /\ hookError' = ""]_vars

\* The first socket failed while it was the current one, a second connect
\* created the second socket, and its open event cleared the error.
C22_Witness ==
  /\ Len(sockets) = 2
  /\ sockets[1].errored /\ ~sockets[1].disconnected /\ ~sockets[1].closed
  /\ connectLog = <<ValidKey, ValidKey>>
  /\ sockets[2].readyState = "OPEN"
  /\ socketRef = 2
  /\ isConnected
  /\ hookError = ""

\* ---------------------------------------------------------- rejected keys
IsBlankKey(key) == \A i \in 1 .. Len(key) : key[i] \in Whitespace

\* The key without the whitespace at its ends is shorter than the minimum.
IsShortKey(key) ==
  \E from, to \in 1 .. Len(key) :
    /\ key[from] \notin Whitespace /\ key[to] \notin Whitespace
    /\ \A i \in 1 .. Len(key) : (i < from \/ i > to) => key[i] \in Whitespace
    /\ to - from + 1 < MIN_API_KEY_LENGTH

ConnectStep == Len(connectLog') = Len(connectLog) + 1

\* C23: connect with an empty or blank key, or with a key shorter than
\* MIN_API_KEY_LENGTH once trimmed, sets the error message for that case and
\* changes nothing else: no socket is created, and the current socket,
\* isConnected and the keepalive timer stay as they are.
C23_RejectedKeyOnlySetsError ==
  [][ConnectStep /\ (IsBlankKey(CalledWith) \/ IsShortKey(CalledWith)) =>
      /\ hookError' = IF IsBlankKey(CalledWith) THEN "KeyInvalid" ELSE "KeyMalformed"
      /\ UNCHANGED <<sockets, socketRef, isConnected, hasErrorOccurred, keepAliveRef,
                     intervals, keepAliveSent, transcript, interimTranscript,
                     messageLog, finalCalls>>
      /\ UNCHANGED <<pipelineVars, segmenterVars, handlerVars>>]_vars

\* A key that is too short without its leading blank was rejected while
\* the first socket was open with its timer running.
C23_Witness ==
  /\ connectLog = <<ValidKey, PaddedShortKey>>
  /\ hookError = "KeyMalformed"
  /\ Len(sockets) = 1
  /\ sockets[1].readyState = "OPEN"
  /\ socketRef = 1
  /\ isConnected
  /\ intervals = {1}

\* ------------------------------------------------------------ the gap rule
\* The pass that React runs in this step skips an id.
SkippedId == skipLog'[Len(skipLog')]
SkipStep == Len(skipLog') = Len(skipLog) + 1

\* It skips it by the timeout rule: the id has a dispatch timestamp.
TimeoutSkipStep == SkipStep /\ Has(sequenceTimestamps, SkippedId)

\* It skips it by the missing-record rule: the id has no timestamp.
MissingSkipStep == SkipStep /\ ~Has(sequenceTimestamps, SkippedId)

\* The highest id allocated so far; ids are the dispatch positions.
LatestAllocated == sequenceId - 1

\* C24 as stated: the timeout rule skips the id at the cursor only when the
\* highest id allocated so far minus the cursor is greater than
\* MAX_SEQUENCE_GAP; with id 0 stuck and only the ids up to MAX_SEQUENCE_GAP
\* allocated, id 0 is not skipped.
C24_GapFromLatestAllocatedId ==
  /\ [][TimeoutSkipStep => LatestAllocated - SkippedId > MAX_SEQUENCE_GAP]_vars
  /\ [](LatestAllocated = MAX_SEQUENCE_GAP => 0 \notin Range(skipLog))

\* C24: the gap is the number of ids allocated so far minus the cursor, one
\* more than the highest allocated id minus the cursor.  The timeout rule
\* skips the id at the cursor only when that gap is greater than
\* MAX_SEQUENCE_GAP, and a pass that stalls at an id with such a gap and a
\* timestamp older than the timeout does skip it; with fewer than
\* MAX_SEQUENCE_GAP + 1 ids allocated nothing is skipped.
C24_GapFromAllocatedCount ==
  /\ [][TimeoutSkipStep =>
          /\ sequenceId - SkippedId > MAX_SEQUENCE_GAP
          /\ Head(updateQueue).now - sequenceTimestamps[SkippedId] > SEQUENCE_TIMEOUT_MS]_vars
  /\ [][SkipsStuckIdOnce]_vars
  /\ [](sequenceId <= MAX_SEQUENCE_GAP => skipLog = <<>>)

\* Ids 0 to MAX_SEQUENCE_GAP are allocated, no more, and id 0 was skipped.
C24_Witness ==
  /\ LatestAllocated = MAX_SEQUENCE_GAP
  /\ skipLog = <<0>>
  /\ 0 \notin DOMAIN settled

\* ------------------------------------------------- removal of timestamps
\* What one step removes from sequenceTimestampsRef.current.
RemovedStamps == DOMAIN sequenceTimestamps \ DOMAIN sequenceTimestamps'

\* The id at the cursor is allocated and has no stored result.
CursorWaits == nextToDisplay < sequenceId /\ ~Has(completedResults, nextToDisplay)

\* A sentence was dispatched more than CLEANUP_AGE_MS after the id.
OutlivedByDispatch(id) ==
  \E i \in 1 .. Len(dispatchLog) :
    dispatchLog[i].time - DispatchTimeOf(id) > CLEANUP_AGE_MS

\* C25 as stated: a timestamp is removed only when its id is drained or
\* skipped by timeout, so an id that sits at the cursor with no result still
\* has its timestamp.
C25_TimestampKeptUntilDrainOrSkip ==
  /\ [][\A id \in RemovedStamps :
          ShownInStep(id) \/ (TimeoutSkipStep /\ SkippedId = id)]_vars
  /\ [](CursorWaits => Has(sequenceTimestamps, nextToDisplay))

\* C25: a timestamp is removed only when its id is drained or skipped by
\* timeout, or when a sentence is dispatched more than CLEANUP_AGE_MS after
\* it, and every such dispatch does remove it.  An id that sits at the cursor
\* with no result has its timestamp unless such a dispatch has happened;
\* no timestamp is left for an id below the cursor.
C25_TimestampKeptUntilDrainSkipOrSweep ==
  /\ [][\A id \in RemovedStamps :
          ShownInStep(id) \/ (TimeoutSkipStep /\ SkippedId = id) \/ SweptInStep(id)]_vars
  /\ [][\A id \in DOMAIN sequenceTimestamps :
          SweptInStep(id) => ~Has(sequenceTimestamps', id)]_vars
  /\ [](CursorWaits =>
          Has(sequenceTimestamps, nextToDisplay) \/ OutlivedByDispatch(nextToDisplay))
  /\ [](\A id \in DOMAIN sequenceTimestamps : id >= nextToDisplay)

\* The call of the id at the cursor is still out and every sentence is
\* dispatched, the last one late enough to have swept the id's timestamp.
C25_Witness ==
  /\ CursorWaits
  /\ nextToDisplay \notin DOMAIN settled
  /\ ~Has(sequenceTimestamps, nextToDisplay)
  /\ sequenceId = BacklogSeq
  /\ skipLog = <<>>

\* ------------------------------------------------- the missing-record rule
\* The drain of the pass about to run stalls at an id without a timestamp.
StallsWithoutStamp == DrainUpdaterRuns /\ ~Has(sequenceTimestamps, StallPoint)

\* What the retry counter is after the drain loop of the pass about to run.
CountAfterDrain == IF StallPoint > nextToDisplay THEN 0 ELSE displayRetryCount

RetryScheduled == microtasks' = Append(microtasks, "retry")

\* C26 as stated: a pass that stalls at an id without a timestamp moves the
\* cursor past it, by one, and schedules a retry when the gap is more than
\* twice MAX_SEQUENCE_GAP, and leaves the cursor at it otherwise.
C26_MissingSkipSchedulesRetry ==
  [][StallsWithoutStamp =>
      IF sequenceId - StallPoint > 2 * MAX_SEQUENCE_GAP
      THEN nextToDisplay' = StallPoint + 1 /\ RetryScheduled
      ELSE nextToDisplay' = StallPoint]_vars

\* C26: with the gap taken as the ids allocated so far minus the cursor, a
\* pass that stalls at an id without a timestamp moves the cursor past it,
\* by one, when the gap is more than twice MAX_SEQUENCE_GAP, and leaves the
\* cursor at it otherwise.  After the skip it schedules a retry unless this
\* was the MAX_DISPLAY_RETRIES-th skip in a row with nothing displayed in
\* between; then it resets the retry counter and schedules none.
C26_MissingSkipByOne ==
  [][StallsWithoutStamp =>
      IF sequenceId - StallPoint > 2 * MAX_SEQUENCE_GAP
      THEN /\ nextToDisplay' = StallPoint + 1
           /\ skipLog' = Append(skipLog, StallPoint)
           /\ IF CountAfterDrain + 1 < MAX_DISPLAY_RETRIES
              THEN RetryScheduled /\ displayRetryCount' = CountAfterDrain + 1
              ELSE ~RetryScheduled /\ displayRetryCount' = 0
      ELSE /\ nextToDisplay' = StallPoint
           /\ skipLog' = skipLog
           /\ ~RetryScheduled]_vars

\* MAX_DISPLAY_RETRIES ids were skipped for want of a timestamp with nothing
\* displayed in between; the last skip reset the counter and no pass is
\* pending.
C26_Witness ==
  /\ skipLog = [i \in 1 .. MAX_DISPLAY_RETRIES |-> i - 1]
  /\ DOMAIN sequenceTimestamps \cap (0 .. MissStuck - 1) = {}
  /\ displayRetryCount = 0
  /\ displayLog = <<>>
  /\ Quiescent

\* ------------------------------------------------------- the retry chain
\* The pass React runs in this step makes the skip that brings the retry
\* counter to its limit.
LimitReached ==
  /\ DrainUpdaterRuns
  /\ SkipStep
  /\ CountAfterDrain + 1 >= MAX_DISPLAY_RETRIES

NoPassQueued(queue) == \A i \in 1 .. Len(queue) : queue[i].kind # "drain"

\* C27: a pass skips at most one id and only a pass that skips queues a
\* retry; the passes that follow one outside call make at most
\* MAX_DISPLAY_RETRIES skips in a row without displaying a result; the skip
\* that reaches the limit queues the callback that clears the in-progress
\* flag and no retry, and once that callback has run no pass is pending.
C27_RetryChainStops ==
  /\ [](chainSkips <= MAX_DISPLAY_RETRIES)
  /\ [][Len(skipLog') <= Len(skipLog) + 1]_vars
  /\ [][RetryScheduled => SkipStep]_vars
  /\ [][LimitReached =>
          /\ microtasks' = Append(microtasks, "clear")
          /\ NoPassQueued(updateQueue')
          /\ displayRetryCount' = 0]_vars
  /\ [][microtasks # <<>> /\ Head(microtasks) = "clear" /\ microtasks' = Tail(microtasks) =>
          ~isDisplaying' /\ NoPassQueued(updateQueue')]_vars

\* One outside call was followed by MAX_DISPLAY_RETRIES skips with nothing
\* displayed; the chain has stopped with the flag cleared although the id
\* at the cursor is as overdue as the skipped ones.
C27_Witness ==
  /\ chainSkips = MAX_DISPLAY_RETRIES
  /\ displayLog = <<>>
  /\ Quiescent
  /\ displayRetryCount = 0
  /\ TimedOutAt(nextToDisplay, now)

\* ----------------------------------------------------------- late results
\* The call of an id that was skipped returns in this step.
LateArrivalStep(k) ==
  /\ k \in Range(skipLog)
  /\ k \notin DOMAIN settled
  /\ k \in DOMAIN settled'

\* C28: an id the cursor has skipped is never displayed and stays behind the
\* cursor, which never moves back; the displayed text is made of the results
\* of the displayed ids only, so the result of a skipped id is in it neither
\* in order nor out of order; the step in which the late result arrives
\* changes neither the cursor nor the text.
C28_LateResultIsNotDisplayed ==
  /\ [](\A k \in Range(skipLog) : k \notin Range(displayLog) /\ k < nextToDisplay)
  /\ [](Increasing(displayLog) /\ refinedTextRef = Contributions(displayLog))
  /\ [][nextToDisplay' >= nextToDisplay]_vars
  /\ [][\A k \in Range(skipLog) :
          LateArrivalStep(k) =>
            UNCHANGED <<nextToDisplay, refinedText, refinedTextRef, displayLog>>]_vars

\* Id 0 was skipped, its result arrived afterwards and is still stored; the
\* pass begun by its arrival is over and the later results are displayed.
C28_Witness ==
  /\ skipLog = <<0>>
  /\ Has(completedResults, 0)
  /\ Quiescent
  /\ Len(displayLog) >= MAX_SEQUENCE_GAP
  /\ nextToDisplay = sequenceId

\* ------------------------------------------------- timestamps of evictions
\* C29: when the size cap of an updater run discards stored results, the
\* timestamps of the discarded ids are gone after the run.
C29_EvictionPrunesTimestamps ==
  [][DrainUpdaterRuns =>
      \A id \in DOMAIN completedResults :
        EvictedInStep(id) => ~Has(sequenceTimestamps', id)]_vars


\* ------------------------------------------- the bound of the sentence record
\* A step of processSentence whose insertion makes the record pass the cap.
InsertionOverCap ==
  /\ Len(dispatchLog') = Len(dispatchLog) + 1
  /\ Len(processedTranscripts) = MAX_PROCESSED

\* The k-th of the MAX_PROCESSED \div 2 most recent insertions, oldest first.
RecentInsertion(k) == dispatchLog'[Len(dispatchLog') - (MAX_PROCESSED \div 2) + k]

\* C30: the sentence record never holds more than MAX_PROCESSED entries, and
\* after an insertion that makes it pass the cap it holds, in insertion
\* order, the MAX_PROCESSED \div 2 most recently inserted sentences and
\* nothing else (less those of them the age sweep of the same call removes).
C30_SentenceRecordBounded ==
  /\ [](Len(processedTranscripts) <= MAX_PROCESSED)
  /\ [][InsertionOverCap =>
          LET recent == [k \in 1 .. (MAX_PROCESSED \div 2) |->
                           [text |-> RecentInsertion(k).sentence,
                            time |-> RecentInsertion(k).time]]
          IN /\ processedTranscripts' =
                  SelectSeq(recent, LAMBDA e : ~(now' - e.time > CLEANUP_AGE_MS))
             /\ Len(processedTranscripts') <= MAX_PROCESSED \div 2]_vars

\* The insertion of the latest sentence passed the cap: the record holds
\* exactly half of the cap, the latest sentence last, after more than
\* MAX_PROCESSED dispatches.
C30_Witness ==
  /\ Len(dispatchLog) > MAX_PROCESSED
  /\ Len(processedTranscripts) = MAX_PROCESSED \div 2
  /\ processedTranscripts[Len(processedTranscripts)].text =
       dispatchLog[Len(dispatchLog)].sentence
  /\ processedTranscripts[1].text =
       dispatchLog[Len(dispatchLog) - (MAX_PROCESSED \div 2) + 1].sentence


\* ------------------------------------------ terminal marks and the buffer
\* How many characters of a text belong to a set.
CountIn(t, marks) == Cardinality({i \in 1 .. Len(t) : t[i] \in marks})

RECURSIVE CountInAll(_, _)
CountInAll(texts, marks) ==
  IF texts = <<>> THEN 0 ELSE CountIn(Head(texts), marks) + CountInAll(Tail(texts), marks)

\* The sentence ends in a mark of the set and holds no other of them.
EndsInOnly(sentence, marks) ==
  /\ sentence # <<>>
  /\ sentence[Len(sentence)] \in marks
  /\ CountIn(sentence, marks) = 1

\* C31 as stated: the buffer holds no period, question mark or exclamation
\* mark, ASCII or full-width, and each emitted sentence ends in one.
C31_NoMarkLeftInBuffer ==
  /\ CountIn(sentenceBuffer, Delimiters \cup AsciiMarks) = 0
  /\ \A i \in 1 .. Len(Emitted) : EndsInOnly(Emitted[i], Delimiters \cup AsciiMarks)

\* C31: the buffer holds none of the three full-width marks of the split
\* pattern, each emitted sentence ends in one of them and holds no other,
\* and the ASCII marks are ordinary text: each of them fed so far is in the
\* buffer or inside an emitted sentence.
C31_NoFullWidthMarkLeftInBuffer ==
  /\ CountIn(sentenceBuffer, Delimiters) = 0
  /\ \A i \in 1 .. Len(Emitted) : EndsInOnly(Emitted[i], Delimiters)
  /\ CountIn(FedText(finalCalls), AsciiMarks) =
       CountIn(sentenceBuffer, AsciiMarks) + CountInAll(Emitted, AsciiMarks)

\* Text with ASCII marks was fed after a sentence: the sentence was emitted
\* and the ASCII marks wait in the buffer.
C31_Witness ==
  /\ finalCalls = <<Greeting, AsciiFragment>>
  /\ Emitted = <<Greeting>>
  /\ sentenceBuffer = AsciiFragment
  /\ pendingSentences = <<>>


\* --------------------------------------- stored results behind the cursor
\* C32: after an updater run has done its cleanup, no stored result has an id
\* below the cursor minus MAX_SEQUENCE_GAP.
C32_NoResultFarBehindCursor ==
  [][DrainUpdaterRuns =>
       \A id \in DOMAIN completedResults' : id >= nextToDisplay' - MAX_SEQUENCE_GAP]_vars


\* ------------------------------------------------ repeats after the window
\* The positions of the dispatch log that hold the last dispatch of a text.
LastDispatches ==
  {i \in 1 .. Len(dispatchLog) :
     \A j \in 1 .. Len(dispatchLog) :
       dispatchLog[j].sentence = dispatchLog[i].sentence => j <= i}

\* The dispatch at position i is older than the recency window.
OutsideWindow(i) == now - dispatchLog[i].time > CLEANUP_AGE_MS

\* A later dispatch ran its age sweep when the entry of position i had aged.
SweptByLaterDispatch(i) ==
  \E j \in (i + 1) .. Len(dispatchLog) :
    dispatchLog[j].time - dispatchLog[i].time > CLEANUP_AGE_MS

\* C33 as stated: a text whose last dispatch is more than CLEANUP_AGE_MS old
\* is not rejected by processSentence, whatever was processed in between.
C33_RepeatAfterWindowIsDispatched ==
  \A i \in LastDispatches : OutsideWindow(i) => ~Rejects(dispatchLog[i].sentence)

\* C33: a text whose last dispatch had aged more than CLEANUP_AGE_MS when a
\* later sentence was dispatched is not rejected by processSentence; with no
\* such dispatch, and fewer than MAX_PROCESSED \div 2 dispatches since, it is
\* rejected however old it is.  A dispatch takes the counter's value as id.
C33_RepeatDispatchedAfterLaterSweep ==
  /\ \A i \in LastDispatches :
       /\ SweptByLaterDispatch(i) => ~Rejects(dispatchLog[i].sentence)
       /\ (~SweptByLaterDispatch(i) /\ Len(dispatchLog) - i < MAX_PROCESSED \div 2)
            => Rejects(dispatchLog[i].sentence)
  /\ \A i \in 1 .. Len(dispatchLog) : dispatchLog[i].seq = i - 1

\* A text was dispatched, dropped as a repeat, and dispatched again under a
\* new id once another sentence had been dispatched after the window.
C33_Witness ==
  /\ droppedRepeat
  /\ Len(dispatchLog) = 3
  /\ dispatchLog[3].sentence = dispatchLog[1].sentence
  /\ dispatchLog[2].sentence # dispatchLog[1].sentence
  /\ dispatchLog[2].time - dispatchLog[1].time > CLEANUP_AGE_MS
  /\ dispatchLog[3].seq = 2


\* ------------------------------------------------- skips and stored results
\* C34: a pass that advances the cursor by the timeout rule or by the
\* missing-record rule skips an id for which no result is stored, before the
\* pass and after it, and which the pass does not display.
C34_SkippedIdHasNoResult ==
  [][SkipStep =>
       /\ DrainUpdaterRuns
       /\ nextToDisplay' = SkippedId + 1
       /\ ~Has(completedResults, SkippedId)
       /\ ~Has(completedResults', SkippedId)
       /\ SkippedId \notin Range(displayLog')]_vars


\* The last pass skipped the id before the cursor while results of later ids
\* were stored; none is stored for a skipped id and none was displayed.
C34_Witness ==
  /\ skipLog # <<>>
  /\ nextToDisplay = skipLog[Len(skipLog)] + 1
  /\ DOMAIN completedResults # {}
  /\ \A id \in Range(skipLog) :
       ~Has(completedResults, id) /\ id \notin Range(displayLog)


\* ------------------------------------------ the cursor and the dispatcher
\* C35: the cursor is at most the next id to be allocated, and every key of
\* the stored results and of the dispatch timestamps is an id below the
\* counter.
C35_CursorNotAheadOfDispatcher ==
  /\ nextToDisplay <= sequenceId
  /\ \A id \in DOMAIN completedResults : id \in 0 .. sequenceId - 1
  /\ \A id \in DOMAIN sequenceTimestamps : id \in 0 .. sequenceId - 1

\* The cursor has caught up with the counter by skipping and by draining.
C35_Witness ==
  /\ nextToDisplay = sequenceId
  /\ skipLog # <<>>
  /\ displayLog # <<>>
  /\ displayLog[Len(displayLog)] = sequenceId - 1


\* ------------------------------------- results drained during the commit
\* Whether a text occurs inside another.
OccursIn(part, text) ==
  \E k \in 0 .. Len(text) - Len(part) : SubSeq(text, k + 1, k + Len(part)) = part

\* The whole-text refinement call of flush f returns and the handler goes
\* on to paste.
HandOff(f) == flushStage[f] = "refining" /\ flushStage'[f] = "pasting"

\* The ids displayed by draining whose results the text on display holds
\* when the whole-text call returns.
OnDisplayAtHandOff ==
  {id \in Range(displayLog) : OccursIn(ContributionOf(id), refinedTextRef)}

\* C36: when the whole-text call returns, every result drained so far and
\* still on display was part of the text that call refined, so the text
\* handed to the paste reflects it.
C36_DrainedResultReachesPaste ==
  [][\A f \in Flows :
       HandOff(f) =>
         \A id \in OnDisplayAtHandOff : OccursIn(ContributionOf(id), flushText[f])]_vars


\* --------------------------------------------- text fed during the commit
\* pasteToActiveWindow has answered with success: the handler clears the text.
PasteSucceeds ==
  /\ \E f \in Flows : flushStage[f] = "pasting" /\ flushStage'[f] = "idle"
  /\ Len(updateQueue') = Len(updateQueue) + 1

\* The text in the buffer was given an id in this step.
BufferDispatchedInStep ==
  /\ Len(dispatchLog') = Len(dispatchLog) + 1
  /\ dispatchLog'[Len(dispatchLog')].sentence = Trim(sentenceBuffer)

\* C37: text without a delimiter that a final fragment left in the buffer
\* after the flush had emptied it is still in the buffer, or dispatched,
\* when the paste has succeeded.
C37_TextFedDuringCommitIsKept ==
  [][(PasteSucceeds /\ Trim(sentenceBuffer) # <<>>) =>
       (sentenceBuffer' = sentenceBuffer \/ BufferDispatchedInStep)]_vars


\* ------------------------------------------- events of a superseded socket
\* The error event, or the close event, of socket i is delivered in this step.
ErrorEventOn(i) == sockets'[i].errored /\ ~sockets[i].errored
CloseEventOn(i) == sockets'[i].closed /\ ~sockets[i].closed

\* Socket i was disconnected and another socket is the current one.
Superseded(i) == sockets[i].disconnected /\ socketRef # 0 /\ socketRef # i

\* C38: an error or close event of a socket that was disconnected and
\* replaced changes neither the error state nor isConnected nor the current
\* socket, and after the close event of the current socket isConnected is
\* false.
C38_StaleEventsChangeNothing ==
  [][\A i \in 1 .. Len(sockets) :
       /\ ((ErrorEventOn(i) \/ CloseEventOn(i)) /\ Superseded(i))
            => (hookError' = hookError /\ isConnected' = isConnected
                  /\ socketRef' = socketRef)
       /\ (CloseEventOn(i) /\ socketRef = i) => ~isConnected']_vars

====
